---- MODULE Spec2Model ----
(***************************************************************************)
(* plang-rust: the bytecode compiler (src/src/lib/parse.rs) and the stack  *)
(* virtual machine (src/src/lib/interp.rs).                                *)
(*                                                                         *)
(* A behaviour is one use of the library: a parse tree is handed to        *)
(* gen_bytecode, the Bytecode it returns is handed to VM::new, VM::run     *)
(* enters main and then executes one iteration of its loop per step until  *)
(* the loop breaks (status "returned") or a panic aborts it ("fatal").     *)
(***************************************************************************)
EXTENDS Integers, Sequences, FiniteSets, TLC

(***************************************************************************)
(* Bounds of the model                                                     *)
(***************************************************************************)
\* longest statement list of main's body in the generated parse trees
MaxBody == 2
\* deepest frame sequence a run may build (guards Call)
MaxFrames == 4
\* largest heap a run may build (guards NewObject)
MaxHeap == 3
MaxRaw == 3
\* most frames below the newest one in the VM states of MidStates
MaxBelow == 2

(***************************************************************************)
(* Program constants                                                       *)
(***************************************************************************)
\* usize::max_value(); the largest integer the checker represents stands
\* for it (every index of the model is far below it)
UsizeMax == 2147483647
PLACEHOLDER == UsizeMax
CONSTRUCTOR == "construct"
GLOBAL_NSPACE == "global"
MAIN_FN == "main"
EXCEPTION_PTR == 0
I32Max == 2147483647
I32Min == (-2147483647) - 1

(***************************************************************************)
(* HashMap<K, V>: a function whose domain is the set of keys present       *)
(***************************************************************************)
EmptyMap == [k \in {} |-> 0]
MapInsert(m, k, v) == [x \in (DOMAIN m) \cup {k} |-> IF x = k THEN v ELSE m[x]]
HasKey(m, k) == k \in DOMAIN m

(***************************************************************************)
(* NativeType: one record shape for the six variants, so that any two      *)
(* values can be compared (VInt is NativeType::Int, and so on; Int is the  *)
(* set of integers here).  i carries the payload of Int, Bool (0/1) and   *)
(* ObjectRef; s the payload of Str; Double(f32) carries its value in       *)
(* halves in i (Double(1.5) is i = 3), the only floats the model builds.   *)
(***************************************************************************)
VInt(n) == [tag |-> "Int", i |-> n, s |-> ""]
VDouble(h) == [tag |-> "Double", i |-> h, s |-> ""]
VBool(b) == [tag |-> "Bool", i |-> IF b THEN 1 ELSE 0, s |-> ""]
VStr(x) == [tag |-> "Str", i |-> 0, s |-> x]
ObjectRef(k) == [tag |-> "ObjectRef", i |-> k, s |-> ""]
NoneType == [tag |-> "NoneType", i |-> 0, s |-> ""]

(***************************************************************************)
(* Instr: one record shape for all opcodes.  n is the numeric operand      *)
(* (PushInt, LoadVar, StoreVar, the jumps), s the string operand (PushStr, *)
(* LoadField, StoreField, the function name of Call), c the class name of  *)
(* Call.                                                                   *)
(***************************************************************************)
\* LoadGlobal, StoreGlobal and Swap, which gen_bytecode never emits, are
\* known to the VM by their op names only.
Instr(op, n, s, c) == [op |-> op, n |-> n, s |-> s, c |-> c]
PushInt(n) == Instr("PushInt", n, "", "")
PushStr(x) == Instr("PushStr", 0, x, "")
Pop == Instr("Pop", 0, "", "")
Add == Instr("Add", 0, "", "")
Sub == Instr("Sub", 0, "", "")
Lteq == Instr("Lteq", 0, "", "")
Gteq == Instr("Gteq", 0, "", "")
Lt == Instr("Lt", 0, "", "")
Gt == Instr("Gt", 0, "", "")
Eqeq == Instr("Eqeq", 0, "", "")
Raise == Instr("Raise", 0, "", "")
LoadVar(i) == Instr("LoadVar", i, "", "")
StoreVar(i) == Instr("StoreVar", i, "", "")
NewObject == Instr("NewObject", 0, "", "")
LoadField(x) == Instr("LoadField", 0, x, "")
StoreField(x) == Instr("StoreField", 0, x, "")
Dup == Instr("Dup", 0, "", "")
Call(c, f) == Instr("Call", 0, f, c)
JumpIfTrue(p) == Instr("JumpIfTrue", p, "", "")
JumpIfFalse(p) == Instr("JumpIfFalse", p, "", "")
Jump(p) == Instr("Jump", p, "", "")
Ret == Instr("Ret", 0, "", "")
Exit == Instr("Exit", 0, "", "")

(***************************************************************************)
(* The parse tree handed over by the parser (lrpar Node<u16>).  A terminal *)
(* carries its token name and the source text of its lexeme; the text of   *)
(* an INT_LITERAL is kept as its characters, which parse::<i32> reads one  *)
(* by one, every other text is only copied and compared.  A nonterminal    *)
(* carries its rule name and its children in grammar order, so that        *)
(* nodes[k] below is nodes[k] of the source (0-based: Child).              *)
(***************************************************************************)
Term(tok, text) == [term |-> TRUE, rule |-> tok, text |-> text, digits |-> <<>>, nodes |-> <<>>]
TermInt(ds) == [term |-> TRUE, rule |-> "INT_LITERAL", text |-> "", digits |-> ds, nodes |-> <<>>]
Nonterm(rule, nodes) == [term |-> FALSE, rule |-> rule, text |-> "", digits |-> <<>>, nodes |-> nodes]
Child(node, k) == node.nodes[k + 1]

\* Vec<T>: 0-based element access and position of the first match
At(vec, k) == vec[k + 1]
Position(vec, x) == CHOOSE k \in 0..(Len(vec) - 1) : At(vec, k) = x /\ \A j \in 0..(k - 1) : At(vec, j) # x
Contains(vec, x) == \E k \in 1..Len(vec) : vec[k] = x

(***************************************************************************)
(* The compiler context (parse.rs).  panic records that a panic! / unwrap  *)
(* / expect of the compiler has fired: the compilation is abandoned and no *)
(* Bytecode is returned.  patched is a history of the positions handed to  *)
(* patch, kept for the statements about patching; no code reads it.        *)
(* marks is a history too: what each emitter emitted where (MarkAt).       *)
(***************************************************************************)
FnNew == [locals |-> <<>>, num_params |-> 0]

CompilerContextNew == [symbols |-> EmptyMap, bytecode |-> <<>>, labels |-> EmptyMap, cur_cls |-> "global", cur_fn |-> "global", panic |-> "", patched |-> <<>>, marks |-> <<>>]

Panicked(ctx) == ctx.panic # ""
CompilerPanic(ctx, msg) == [ctx EXCEPT !.panic = msg]

\* history: the emitter `kind` has emitted at position `at` while compiling
\* function key; a..d are further positions and name a name, by kind:
\*   "if"   at: the JumpIfFalse, a: first position of the block, b: the
\*          position after the block's last instruction
\*   "for"  c: first position of init, a: loop_entry, at: the JumpIfFalse,
\*          d: first position of step, b: the back Jump
\*   "let"  at: the StoreVar, a: the slot register_local returned, name
\*   "read" at: the LoadVar of a variable, a: its slot, name
\*   "new"  at: the NewObject, b: the Pop, a: the Call, name: the class
\*   "fn"   a: the position of the body's first instruction, b: the
\*          terminator, c: num_params when the body starts, name: the fn
\*   "bin"  at: the opcode, a: first position of the left operand's code,
\*          b: first position of the right operand's code, name: the token
\*   "def"  a: the entry point register_function took, name: the fn
\*   "param" a: the slot register_parameter returned, name
\*   "fset" at: the StoreField, a: first position of the code of the value
\*          expression, b: the LoadVar of the object, name: the field
MarkAt(ctx, kind, at, a, b, c, d, name, key) ==
  [ctx EXCEPT !.marks = Append(@, [kind |-> kind, at |-> at, a |-> a, b |-> b, c |-> c, d |-> d, name |-> name, key |-> key])]

get_value(node) == node.text
get_name(node) == node.rule

\* patch that forgets to write the target into the jump
patch_LeavesPlaceholder(ctx, pos) ==
  LET jump_instr == At(ctx.bytecode, pos)
  IN IF jump_instr.op \in {"JumpIfTrue", "JumpIfFalse"}
     THEN [ctx EXCEPT !.patched = Append(@, pos)]
     ELSE CompilerPanic(ctx, "Unknown jump instruction")

\* self.bytecode[pos] panics on a pos at or past the end of the vector
patch(ctx, pos) ==
  LET patch_value == Len(ctx.bytecode)
      jump_instr == At(ctx.bytecode, pos)
  IN IF pos >= Len(ctx.bytecode)
     THEN CompilerPanic(ctx, "index out of bounds")
     ELSE IF jump_instr.op \in {"JumpIfTrue", "JumpIfFalse"}
     THEN [ctx EXCEPT !.bytecode[pos + 1].n = patch_value, !.patched = Append(@, pos)]
     ELSE CompilerPanic(ctx, "Unknown jump instruction")

register_class(ctx, class) ==
  IF class.term
  THEN [ctx EXCEPT !.cur_cls = get_value(class)]
  ELSE CompilerPanic(ctx, "Can only register a class on a terminal node")

\* register_function that takes the entry point one past the next position
register_function_LabelOneOn(ctx, func) ==
  IF func.term
  THEN LET func_name == get_value(func)
           fn_entry_point == Len(ctx.bytecode) + 1
       IN [ctx EXCEPT !.cur_fn = func_name,
                      !.labels = MapInsert(@, <<ctx.cur_cls, func_name>>, fn_entry_point),
                      !.symbols = MapInsert(@, <<ctx.cur_cls, func_name>>, FnNew)]
  ELSE CompilerPanic(ctx, "Can only register a func on a terminal node")

register_function(ctx, func) ==
  IF func.term
  THEN LET func_name == get_value(func)
           fn_entry_point == Len(ctx.bytecode)
       IN [ctx EXCEPT !.cur_fn = func_name,
                      !.labels = MapInsert(@, <<ctx.cur_cls, func_name>>, fn_entry_point),
                      !.symbols = MapInsert(@, <<ctx.cur_cls, func_name>>, FnNew)]
  ELSE CompilerPanic(ctx, "Can only register a func on a terminal node")

CurKey(ctx) == <<ctx.cur_cls, ctx.cur_fn>>

\* register_parameter that puts the name in front of the ones registered
register_parameter_Prepends(ctx, param) ==
  LET key == CurKey(ctx)
  IN IF ~HasKey(ctx.symbols, key)
     THEN CompilerPanic(ctx, "unwrap on None")
     ELSE [ctx EXCEPT !.symbols[key].num_params = @ + 1,
                      !.symbols[key].locals = <<get_value(param)>> \o @]

register_parameter(ctx, param) ==
  LET key == CurKey(ctx)
  IN IF ~HasKey(ctx.symbols, key)
     THEN CompilerPanic(ctx, "unwrap on None")
     ELSE [ctx EXCEPT !.symbols[key].num_params = @ + 1,
                      !.symbols[key].locals = Append(@, get_value(param))]

\* the slot of var, or -1 where the source unwraps None
get_var_offset(ctx, var) ==
  LET key == CurKey(ctx)
  IN IF HasKey(ctx.symbols, key) /\ Contains(ctx.symbols[key].locals, get_value(var))
     THEN Position(ctx.symbols[key].locals, get_value(var))
     ELSE -1

\* register_local that appends without looking the name up
register_local_AlwaysAppends(ctx, var) ==
  LET key == CurKey(ctx)
      var_name == get_value(var)
  IN IF ~HasKey(ctx.symbols, key)
     THEN [ctx |-> CompilerPanic(ctx, "unwrap on None"), ret |-> 0]
     ELSE [ctx |-> [ctx EXCEPT !.symbols[key].locals = Append(@, var_name)],
           ret |-> Len(ctx.symbols[key].locals)]

\* the context after register_local(var) and the slot it returns
register_local(ctx, var) ==
  LET key == CurKey(ctx)
      var_name == get_value(var)
  IN IF ~HasKey(ctx.symbols, key)
     THEN [ctx |-> CompilerPanic(ctx, "unwrap on None"), ret |-> 0]
     ELSE IF Contains(ctx.symbols[key].locals, var_name)
          THEN [ctx |-> ctx, ret |-> Position(ctx.symbols[key].locals, var_name)]
          ELSE [ctx |-> [ctx EXCEPT !.symbols[key].locals = Append(@, var_name)],
                ret |-> Len(ctx.symbols[key].locals)]

\* gen_bc returns the position bytecode.len() - 1: GenPos of the context before
gen_bc(ctx, instr) == [ctx EXCEPT !.bytecode = Append(@, instr)]
GenPos(ctx) == Len(ctx.bytecode)

\* str::parse::<i32> on the characters of a lexeme: <<n>> for Ok(n), <<>> for
\* Err (empty text, a sign alone, a character that is no digit, or a value
\* outside i32).  One leading "+" or "-" is accepted; a negative value is
\* accumulated downwards, so that i32::MIN parses.
DigitChars == <<"0", "1", "2", "3", "4", "5", "6", "7", "8", "9">>
IsDigit(ch) == \E d \in 1..10 : DigitChars[d] = ch
DigitVal(ch) == (CHOOSE d \in 1..10 : DigitChars[d] = ch) - 1
RECURSIVE ParseDigits(_, _, _)
ParseDigits(ds, acc, neg) ==
  IF ds = <<>> THEN <<acc>>
  ELSE IF ~IsDigit(Head(ds)) THEN <<>>
  ELSE IF neg
       THEN IF acc < ((I32Min + DigitVal(Head(ds))) + 9) \div 10 THEN <<>>
            ELSE ParseDigits(Tail(ds), acc * 10 - DigitVal(Head(ds)), neg)
       ELSE IF acc > (I32Max - DigitVal(Head(ds))) \div 10 THEN <<>>
            ELSE ParseDigits(Tail(ds), acc * 10 + DigitVal(Head(ds)), neg)
ParseI32(ds) ==
  IF ds = <<>> THEN <<>>
  ELSE IF Head(ds) \in {"+", "-"}
       THEN IF Tail(ds) = <<>> THEN <<>> ELSE ParseDigits(Tail(ds), 0, Head(ds) = "-")
       ELSE ParseDigits(ds, 0, FALSE)

(***************************************************************************)
(* gen_bytecode and its nested functions.  Each takes the node and the     *)
(* context and yields the context after it; once the context has panicked  *)
(* nothing more is emitted.  The `for child in nodes` loops are the        *)
(* ...Loop operators, from child k (0-based) on.                           *)
(***************************************************************************)
BinOpcode(tok) ==
  CASE tok = "PLUS" -> Add
    [] tok = "MINUS" -> Sub
    [] tok = "LTEQ" -> Lteq
    [] tok = "GTEQ" -> Gteq
    [] tok = "LT" -> Lt
    [] tok = "GT" -> Gt
    [] tok = "EQEQ" -> Eqeq
    [] OTHER -> Instr("", 0, "", "")

RECURSIVE gen_exp(_, _)
RECURSIVE gen_args(_, _)
RECURSIVE gen_argsLoop(_, _, _)
RECURSIVE gen_stmt(_, _)
RECURSIVE gen_block(_, _)
RECURSIVE gen_blockLoop(_, _, _)
RECURSIVE gen_func_def(_, _)
RECURSIVE gen_if(_, _)
RECURSIVE gen_for(_, _)
RECURSIVE gen_let(_, _)

gen_literal(nodes, ctx) ==
  LET lit_type == get_name(nodes[1])
  IN CASE lit_type = "INT_LITERAL" ->
            IF ParseI32(nodes[1].digits) = <<>>
            THEN CompilerPanic(ctx, "unwrap on Err")
            ELSE gen_bc(ctx, PushInt(ParseI32(nodes[1].digits)[1]))
       [] lit_type = "STR_LITERAL" -> gen_bc(ctx, PushStr(get_value(nodes[1])))
       [] OTHER -> CompilerPanic(ctx, "NotYetImplemented")

\* gen_binary that emits the right operand before the left one
gen_binary_RightFirst(nodes, ctx) ==
  LET c1 == gen_exp(nodes[3], ctx)
      c2 == gen_exp(nodes[1], c1)
      bin_op == nodes[2]
  IN IF Panicked(c2) \/ bin_op.term THEN c2
     ELSE IF BinOpcode(get_name(Child(bin_op, 0))).op = ""
          THEN CompilerPanic(c2, "Unknown operator")
          ELSE MarkAt(gen_bc(c2, BinOpcode(get_name(Child(bin_op, 0)))),
                      "bin", GenPos(c2), GenPos(c1), GenPos(ctx), 0, 0,
                      get_name(Child(bin_op, 0)), CurKey(ctx))

gen_binary(nodes, ctx) ==
  LET c1 == gen_exp(nodes[1], ctx)
      c2 == gen_exp(nodes[3], c1)
      bin_op == nodes[2]
  IN IF Panicked(c2) \/ bin_op.term THEN c2
     ELSE IF BinOpcode(get_name(Child(bin_op, 0))).op = ""
          THEN CompilerPanic(c2, "Unknown operator")
          ELSE MarkAt(gen_bc(c2, BinOpcode(get_name(Child(bin_op, 0)))),
                      "bin", GenPos(c2), GenPos(ctx), GenPos(c1), 0, 0,
                      get_name(Child(bin_op, 0)), CurKey(ctx))

gen_exp(node, ctx) ==
  IF Panicked(ctx) \/ node.term THEN ctx
  ELSE LET exp_type == Child(node, 0)
           name == get_name(exp_type)
           nodes == exp_type.nodes
       IN IF exp_type.term THEN ctx
          ELSE CASE name = "variable" ->
                      IF get_var_offset(ctx, nodes[1]) < 0
                      THEN CompilerPanic(ctx, "unwrap on None")
                      ELSE MarkAt(gen_bc(ctx, LoadVar(get_var_offset(ctx, nodes[1]))),
                                  "read", GenPos(ctx), get_var_offset(ctx, nodes[1]), 0, 0, 0,
                                  get_value(nodes[1]), CurKey(ctx))
                 [] name = "binary_expression" -> gen_binary(nodes, ctx)
                 [] name = "method_invocation" ->
                      LET c1 == gen_args(nodes[5], ctx)
                      IN IF Panicked(c1) THEN c1
                         ELSE gen_bc(c1, Call(get_value(nodes[1]), get_value(nodes[3])))
                 [] name = "method_invocation_same_class" ->
                      LET c1 == gen_args(nodes[3], ctx)
                      IN IF Panicked(c1) THEN c1
                         ELSE gen_bc(c1, Call(c1.cur_cls, get_value(nodes[1])))
                 [] name = "field_access" ->
                      IF get_var_offset(ctx, nodes[1]) < 0
                      THEN CompilerPanic(ctx, "unwrap on None")
                      ELSE gen_bc(gen_bc(ctx, LoadVar(get_var_offset(ctx, nodes[1]))),
                                  LoadField(get_value(nodes[3])))
                 [] name = "field_set" ->
                      LET c1 == gen_exp(nodes[5], ctx)
                      IN IF Panicked(c1) THEN c1
                         ELSE IF get_var_offset(c1, nodes[1]) < 0
                              THEN CompilerPanic(c1, "unwrap on None")
                              ELSE MarkAt(gen_bc(gen_bc(c1, LoadVar(get_var_offset(c1, nodes[1]))),
                                                 StoreField(get_value(nodes[3]))),
                                          "fset", GenPos(c1) + 1, GenPos(ctx), GenPos(c1), 0, 0,
                                          get_value(nodes[3]), CurKey(c1))
                 [] name = "class_instance_creation" ->
                      LET c1 == gen_args(nodes[4], gen_bc(gen_bc(ctx, NewObject), Dup))
                      IN IF Panicked(c1) THEN c1
                         ELSE MarkAt(gen_bc(gen_bc(c1, Call(get_value(nodes[2]), CONSTRUCTOR)), Pop),
                                     "new", GenPos(ctx), GenPos(c1), GenPos(c1) + 1, 0, 0,
                                     get_value(nodes[2]), CurKey(ctx))
                 [] name = "literal" -> gen_literal(nodes, ctx)
                 [] OTHER -> CompilerPanic(ctx, "unknown expression")

gen_argsLoop(node, k, ctx) ==
  IF Panicked(ctx) \/ k >= Len(node.nodes) THEN ctx
  ELSE LET child == Child(node, k)
           name == get_name(child)
       IN CASE name = "arg_list" -> gen_argsLoop(node, k + 1, gen_args(child, ctx))
            [] name = "expression" -> gen_argsLoop(node, k + 1, gen_exp(child, ctx))
            [] name = "COMMA" -> gen_argsLoop(node, k + 1, ctx)
            [] OTHER -> CompilerPanic(ctx, "Illegal node found in arg list")

gen_args(node, ctx) == IF node.term THEN ctx ELSE gen_argsLoop(node, 0, ctx)

gen_let(node, ctx) ==
  IF Panicked(ctx) \/ node.term THEN ctx
  ELSE LET c1 == gen_exp(Child(node, 3), ctx)
       IN IF Panicked(c1) THEN c1
          ELSE LET r == register_local(c1, Child(node, 1))
               IN IF Panicked(r.ctx) THEN r.ctx
                  ELSE MarkAt(gen_bc(r.ctx, StoreVar(r.ret)), "let", GenPos(r.ctx), r.ret,
                              0, 0, 0, get_value(Child(node, 1)), CurKey(r.ctx))

gen_raise(node, ctx) ==
  IF Panicked(ctx) \/ node.term THEN ctx ELSE gen_bc(ctx, Raise)

\* gen_if that patches its JumpIfFalse to the first position of the
\* condition, as a loop head would be
gen_if_JumpsToCondition(node, ctx) ==
  IF Panicked(ctx) \/ node.term THEN ctx
  ELSE LET c1 == gen_exp(Child(node, 1), ctx)
           pos == GenPos(c1)
           c2 == gen_block(Child(node, 2), gen_bc(c1, JumpIfFalse(PLACEHOLDER)))
       IN IF Panicked(c1) THEN c1
          ELSE IF Panicked(c2) THEN c2
          ELSE MarkAt([c2 EXCEPT !.bytecode[pos + 1].n = GenPos(ctx), !.patched = Append(@, pos)],
                      "if", pos, pos + 1, Len(c2.bytecode), 0, 0, "", CurKey(c2))

gen_if(node, ctx) ==
  IF Panicked(ctx) \/ node.term THEN ctx
  ELSE LET c1 == gen_exp(Child(node, 1), ctx)
           pos == GenPos(c1)
           c2 == gen_block(Child(node, 2), gen_bc(c1, JumpIfFalse(PLACEHOLDER)))
       IN IF Panicked(c1) THEN c1
          ELSE IF Panicked(c2) THEN c2
          ELSE MarkAt(patch(c2, pos), "if", pos, pos + 1, Len(c2.bytecode), 0, 0, "", CurKey(c2))

\* gen_for that takes loop_entry before init, so the back Jump re-runs init
gen_for_EntryBeforeInit(node, ctx) ==
  IF Panicked(ctx) \/ node.term THEN ctx
  ELSE LET c1 == gen_stmt(Child(node, 2), ctx)
           loop_entry == Len(ctx.bytecode)
           c2 == gen_exp(Child(node, 4), c1)
           exit_call == GenPos(c2)
           c3 == gen_block(Child(node, 8), gen_bc(c2, JumpIfFalse(PLACEHOLDER)))
           c4 == gen_stmt(Child(node, 6), c3)
       IN IF Panicked(c1) THEN c1
          ELSE IF Panicked(c2) THEN c2
          ELSE IF Panicked(c3) THEN c3
          ELSE IF Panicked(c4) THEN c4
          ELSE MarkAt(patch(gen_bc(c4, Jump(loop_entry)), exit_call), "for", exit_call,
                      Len(c1.bytecode), GenPos(c4), Len(ctx.bytecode), Len(c3.bytecode), "", CurKey(c4))

gen_for(node, ctx) ==
  IF Panicked(ctx) \/ node.term THEN ctx
  ELSE LET c1 == gen_stmt(Child(node, 2), ctx)
           loop_entry == Len(c1.bytecode)
           c2 == gen_exp(Child(node, 4), c1)
           exit_call == GenPos(c2)
           c3 == gen_block(Child(node, 8), gen_bc(c2, JumpIfFalse(PLACEHOLDER)))
           c4 == gen_stmt(Child(node, 6), c3)
       IN IF Panicked(c1) THEN c1
          ELSE IF Panicked(c2) THEN c2
          ELSE IF Panicked(c3) THEN c3
          ELSE IF Panicked(c4) THEN c4
          ELSE MarkAt(patch(gen_bc(c4, Jump(loop_entry)), exit_call), "for", exit_call,
                      loop_entry, GenPos(c4), Len(ctx.bytecode), Len(c3.bytecode), "", CurKey(c4))

RECURSIVE gen_params(_, _)
RECURSIVE gen_paramsLoop(_, _, _)
gen_paramsLoop(node, k, ctx) ==
  IF Panicked(ctx) \/ k >= Len(node.nodes) THEN ctx
  ELSE gen_paramsLoop(node, k + 1, gen_params(Child(node, k), ctx))

gen_params(node, ctx) ==
  IF Panicked(ctx) THEN ctx
  ELSE IF ~node.term THEN gen_paramsLoop(node, 0, ctx)
  ELSE IF get_name(node) = "IDENTIFIER"
       THEN LET c1 == register_parameter(ctx, node)
            IN IF Panicked(c1) THEN c1
               ELSE MarkAt(c1, "param", 0, Len(c1.symbols[CurKey(c1)].locals) - 1, 0, 0, 0,
                           get_value(node), CurKey(c1))
  ELSE ctx

\* gen_func_def that ends every function named main with Exit
gen_func_def_ExitOnAnyMain(node, ctx) ==
  IF Panicked(ctx) \/ node.term THEN ctx
  ELSE LET c0 == register_function(ctx, Child(node, 1))
           c1 == MarkAt(c0, "def", 0, GenPos(c0), 0, 0, 0, c0.cur_fn, CurKey(c0))
           cls_name == c1.cur_cls
           fn_name == get_value(Child(node, 1))
           cp == gen_params(Child(node, 3), c1)
           c2 == gen_block(Child(node, 5), cp)
           c3 == MarkAt(c2, "fn", GenPos(c2), Len(cp.bytecode), GenPos(c2),
                        cp.symbols[<<cls_name, fn_name>>].num_params, 0, fn_name,
                        <<cls_name, fn_name>>)
       IN IF Panicked(c1) THEN c1
          ELSE IF Panicked(c2) THEN c2
          ELSE IF fn_name = "main"
               THEN gen_bc(c3, Exit)
               ELSE gen_bc(c3, Ret)

gen_func_def(node, ctx) ==
  IF Panicked(ctx) \/ node.term THEN ctx
  ELSE LET c0 == register_function(ctx, Child(node, 1))
           c1 == MarkAt(c0, "def", 0, GenPos(c0), 0, 0, 0, c0.cur_fn, CurKey(c0))
           cls_name == c1.cur_cls
           fn_name == get_value(Child(node, 1))
           cp == gen_params(Child(node, 3), c1)
           c2 == gen_block(Child(node, 5), cp)
           c3 == MarkAt(c2, "fn", GenPos(c2), Len(cp.bytecode), GenPos(c2),
                        cp.symbols[<<cls_name, fn_name>>].num_params, 0, fn_name,
                        <<cls_name, fn_name>>)
       IN IF Panicked(c1) THEN c1
          ELSE IF Panicked(c2) THEN c2
          ELSE IF <<cls_name, fn_name>> = <<"global", "main">>
               THEN gen_bc(c3, Exit)
               ELSE gen_bc(c3, Ret)

gen_stmt(node, ctx) ==
  IF Panicked(ctx) \/ node.term THEN ctx
  ELSE LET name == get_name(Child(node, 0))
       IN CASE name = "expression" -> gen_exp(Child(node, 0), ctx)
            [] name = "if_statement" -> gen_if(Child(node, 0), ctx)
            [] name = "let_statement" -> gen_let(Child(node, 0), ctx)
            [] name = "func_def" -> gen_func_def(Child(node, 0), ctx)
            [] name = "for_statement" -> gen_for(Child(node, 0), ctx)
            [] name = "raise" -> gen_raise(Child(node, 0), ctx)
            [] OTHER -> CompilerPanic(ctx, "unknown nonterminal node")

gen_blockLoop(node, k, ctx) ==
  IF Panicked(ctx) \/ k >= Len(node.nodes) THEN ctx
  ELSE LET child == Child(node, k)
       IN IF get_name(child) = "statement"
          THEN gen_blockLoop(node, k + 1, gen_stmt(child, ctx))
          ELSE gen_blockLoop(node, k + 1, gen_block(child, ctx))

gen_block(node, ctx) == IF node.term THEN ctx ELSE gen_blockLoop(node, 0, ctx)

RECURSIVE gen_class(_, _)
RECURSIVE gen_classLoop(_, _, _)
gen_classLoop(node, k, ctx) ==
  IF Panicked(ctx) \/ k >= Len(node.nodes) THEN ctx
  ELSE gen_classLoop(node, k + 1, gen_class(Child(node, k), ctx))

gen_class(node, ctx) ==
  IF Panicked(ctx) \/ node.term THEN ctx
  ELSE CASE get_name(node) = "class_def" ->
              LET c1 == register_class(ctx, Child(node, 1))
              IN IF Panicked(c1) THEN c1 ELSE gen_block(Child(node, 5), c1)
         [] get_name(node) = "prog" -> gen_classLoop(node, 0, ctx)
         [] OTHER -> CompilerPanic(ctx, "Unknown class def")

\* the context at the end of gen_bytecode; Bytecode::new keeps its three maps
gen_bytecode(parse_tree) ==
  IF parse_tree.term THEN CompilerPanic(CompilerContextNew, "Error")
  ELSE gen_classLoop(parse_tree, 0, CompilerContextNew)

BytecodeNew(ctx) == [bytecode |-> ctx.bytecode, symbols |-> ctx.symbols, labels |-> ctx.labels]

(***************************************************************************)
(* Parse trees of source programs, built rule by rule as the grammar       *)
(* quoted in the comments of parse.rs builds them (left-recursive lists,   *)
(* keyword and punctuation terminals in place).                            *)
(***************************************************************************)
Tok(t) == Term(t, "")
Ident(x) == Term("IDENTIFIER", x)
Expression(e) == Nonterm("expression", <<e>>)
EVar(x) == Expression(Nonterm("variable", <<Ident(x)>>))
EInt(ds) == Expression(Nonterm("literal", <<TermInt(ds)>>))
EStr(t) == Expression(Nonterm("literal", <<Term("STR_LITERAL", t)>>))
EBin(l, op, r) == Expression(Nonterm("binary_expression", <<l, Nonterm("bin_op", <<Tok(op)>>), r>>))

RECURSIVE ArgList(_)
ArgList(es) ==
  IF Len(es) = 1 THEN Nonterm("arg_list", <<es[1]>>)
  ELSE Nonterm("arg_list", <<ArgList(SubSeq(es, 1, Len(es) - 1)), Tok("COMMA"), es[Len(es)]>>)
ArgListOpt(es) ==
  IF es = <<>> THEN Nonterm("arg_list_opt", <<>>) ELSE Nonterm("arg_list_opt", <<ArgList(es)>>)

ECallRecv(obj, m, es) == Expression(Nonterm("method_invocation", <<Ident(obj), Tok("DOT"), Ident(m), Tok("LPAREN"), ArgListOpt(es), Tok("RPAREN")>>))
ECall(m, es) == Expression(Nonterm("method_invocation_same_class", <<Ident(m), Tok("LPAREN"), ArgListOpt(es), Tok("RPAREN")>>))
EFieldGet(x, f) == Expression(Nonterm("field_access", <<Ident(x), Tok("DOT"), Ident(f)>>))
EFieldSet(x, f, e) == Expression(Nonterm("field_set", <<Ident(x), Tok("DOT"), Ident(f), Tok("EQ"), e>>))
ENew(c, es) == Expression(Nonterm("class_instance_creation", <<Tok("NEW"), Ident(c), Tok("LPAREN"), ArgListOpt(es), Tok("RPAREN")>>))

Statement(x) == Nonterm("statement", <<x>>)
RECURSIVE BlockStatements(_)
BlockStatements(ss) ==
  IF Len(ss) = 1 THEN Nonterm("block_statements", <<ss[1]>>)
  ELSE Nonterm("block_statements", <<BlockStatements(SubSeq(ss, 1, Len(ss) - 1)), Tok("SEMI"), ss[Len(ss)]>>)
Block(ss) == Nonterm("block", <<Tok("LBRACE"), BlockStatements(ss), Tok("RBRACE")>>)

SExp(e) == Statement(e)
SLet(x, e) == Statement(Nonterm("let_statement", <<Tok("LET"), Ident(x), Tok("EQ"), e>>))
SRaise == Statement(Nonterm("raise", <<Tok("RAISE")>>))
SIf(c, ss) == Statement(Nonterm("if_statement", <<Tok("IF"), c, Block(ss)>>))
SFor(init, c, step, ss) == Statement(Nonterm("for_statement", <<Tok("FOR"), Tok("LPAREN"), init, Tok("SEMI"), c, Tok("SEMI"), step, Tok("RPAREN"), Block(ss)>>))

RECURSIVE ParameterList(_)
ParameterList(ps) ==
  IF Len(ps) = 1 THEN Nonterm("parameter_list", <<Ident(ps[1])>>)
  ELSE Nonterm("parameter_list", <<ParameterList(SubSeq(ps, 1, Len(ps) - 1)), Tok("COMMA"), Ident(ps[Len(ps)])>>)
ParameterListOpt(ps) ==
  IF ps = <<>> THEN Nonterm("parameter_list_opt", <<>>) ELSE Nonterm("parameter_list_opt", <<ParameterList(ps)>>)
SDef(name, ps, ss) == Statement(Nonterm("func_def", <<Tok("DEF"), Ident(name), Tok("LPAREN"), ParameterListOpt(ps), Tok("RPAREN"), Block(ss)>>))

ClassDef(name, ss) == Nonterm("class_def", <<Tok("CLASS"), Ident(name), Tok("LPAREN"), Nonterm("parent_class_opt", <<>>), Tok("RPAREN"), Block(ss)>>)
RECURSIVE Prog(_)
Prog(cs) ==
  IF Len(cs) = 1 THEN Nonterm("prog", <<cs[1]>>)
  ELSE Nonterm("prog", <<Prog(SubSeq(cs, 1, Len(cs) - 1)), cs[Len(cs)]>>)

(***************************************************************************)
(* Frame (interp.rs).  The operand stack and the locals are Vecs: the top  *)
(* of the stack is its last element, slot k of the locals is At(locals,k). *)
(* The operators below assume the operands a method pops are there; the    *)
(* states in which a method panics instead are those of PanicOf.           *)
(***************************************************************************)
FrameNew(name, locals, return_address) ==
  [stack |-> <<>>, locals |-> locals, return_address |-> return_address,
   raise |-> FALSE, in_try |-> FALSE, name |-> name]

Last(vec) == vec[Len(vec)]
Front(vec) == SubSeq(vec, 1, Len(vec) - 1)

push(frame, obj) == [frame EXCEPT !.stack = Append(@, obj)]
\* pop returns Last(frame.stack) and leaves the frame pop(frame)
pop(frame) == [frame EXCEPT !.stack = Front(@)]
peek(frame) == IF frame.stack = <<>> THEN <<>> ELSE <<Last(frame.stack)>>
\* dup that pushes the top of the stack twice
dup_Twice(frame) == push(push(frame, Last(frame.stack)), Last(frame.stack))
dup(frame) == push(frame, Last(frame.stack))

load_local(frame, index) == push(frame, At(frame.locals, index))

\* store_local that appends the value whatever the index is
store_local_AlwaysPush(frame, index) ==
  LET value == Last(frame.stack)
      f1 == pop(frame)
  IN [f1 EXCEPT !.locals = Append(@, value)]

store_local(frame, index) ==
  LET value == Last(frame.stack)
      f1 == pop(frame)
      len == Len(f1.locals)
  IN IF index < len
     THEN [f1 EXCEPT !.locals[index + 1] = value]
     ELSE [f1 EXCEPT !.locals = Append(@, value)]

raise(frame, msg) ==
  [push(push(frame, ObjectRef(EXCEPTION_PTR)), VStr(msg)) EXCEPT !.raise = TRUE]

\* i32 arithmetic of a build without overflow checks: two's complement wrap
WrapAdd(x, y) ==
  IF x > 0 /\ y > 0 /\ x > I32Max - y THEN (x + I32Min) + (y + I32Min)
  ELSE IF x < 0 /\ y < 0 /\ x < I32Min - y THEN (x - I32Min) + (y - I32Min)
  ELSE x + y
AddOverflows(x, y) == (x > 0 /\ y > 0 /\ x > I32Max - y) \/ (x < 0 /\ y < 0 /\ x < I32Min - y)
WrapSub(x, y) ==
  IF x >= 0 /\ y < 0 /\ x > I32Max + y THEN ((x + I32Min) + 1) + ((-1 - y) + I32Min)
  ELSE IF x < 0 /\ y > 0 /\ x < I32Min + y THEN (x - I32Min) + ((0 - y) - I32Min)
  ELSE x - y
SubOverflows(x, y) == (x >= 0 /\ y < 0 /\ x > I32Max + y) \/ (x < 0 /\ y > 0 /\ x < I32Min + y)

\* the operand as f32, in halves: `x as f32` of an Int, the payload of a Double
IsNum(v) == v.tag \in {"Int", "Double"}
AsF32(v) == IF v.tag = "Int" THEN 2 * v.i ELSE v.i
BothInt(l, r) == l.tag = "Int" /\ r.tag = "Int"

\* rhs is popped first, lhs second
Rhs(frame) == Last(frame.stack)
Lhs(frame) == Last(Front(frame.stack))
Popped2(frame) == pop(pop(frame))

add(frame) ==
  LET rhs == Rhs(frame)
      lhs == Lhs(frame)
      f2 == Popped2(frame)
  IN IF BothInt(lhs, rhs) THEN push(f2, VInt(WrapAdd(lhs.i, rhs.i)))
     ELSE IF IsNum(lhs) /\ IsNum(rhs) THEN push(f2, VDouble(AsF32(lhs) + AsF32(rhs)))
     ELSE raise(f2, "TypeError")

sub(frame) ==
  LET rhs == Rhs(frame)
      lhs == Lhs(frame)
      f2 == Popped2(frame)
  IN IF BothInt(lhs, rhs) THEN push(f2, VInt(WrapSub(lhs.i, rhs.i)))
     ELSE IF IsNum(lhs) /\ IsNum(rhs) THEN push(f2, VDouble(AsF32(lhs) - AsF32(rhs)))
     ELSE raise(f2, "TypeError")

lteq(frame) ==
  LET rhs == Rhs(frame)
      lhs == Lhs(frame)
      f2 == Popped2(frame)
  IN IF BothInt(lhs, rhs) THEN push(f2, VBool(lhs.i <= rhs.i))
     ELSE IF IsNum(lhs) /\ IsNum(rhs) THEN push(f2, VBool(AsF32(lhs) <= AsF32(rhs)))
     ELSE raise(f2, "TypeError")

lt(frame) ==
  LET rhs == Rhs(frame)
      lhs == Lhs(frame)
      f2 == Popped2(frame)
  IN IF BothInt(lhs, rhs) THEN push(f2, VBool(lhs.i < rhs.i))
     ELSE IF IsNum(lhs) /\ IsNum(rhs) THEN push(f2, VBool(AsF32(lhs) < AsF32(rhs)))
     ELSE raise(f2, "TypeError")

gt(frame) ==
  LET rhs == Rhs(frame)
      lhs == Lhs(frame)
      f2 == Popped2(frame)
  IN IF BothInt(lhs, rhs) THEN push(f2, VBool(lhs.i > rhs.i))
     ELSE IF IsNum(lhs) /\ IsNum(rhs) THEN push(f2, VBool(AsF32(lhs) > AsF32(rhs)))
     ELSE raise(f2, "TypeError")

gteq(frame) ==
  LET rhs == Rhs(frame)
      lhs == Lhs(frame)
      f2 == Popped2(frame)
  IN IF BothInt(lhs, rhs) THEN push(f2, VBool(lhs.i >= rhs.i))
     ELSE IF IsNum(lhs) /\ IsNum(rhs) THEN push(f2, VBool(AsF32(lhs) >= AsF32(rhs)))
     ELSE raise(f2, "TypeError")

\* eq that compares operands of any type instead of raising
eq_AnyType(frame) ==
  LET rhs == Rhs(frame)
      lhs == Lhs(frame)
      f2 == Popped2(frame)
  IN IF BothInt(lhs, rhs) THEN push(f2, VBool(lhs.i = rhs.i))
     ELSE IF IsNum(lhs) /\ IsNum(rhs) THEN push(f2, VBool(AsF32(lhs) = AsF32(rhs)))
     ELSE push(f2, VBool(lhs = rhs))

\* eq that compares any two operands of one type and raises on the others
eq_SameTypeCompares(frame) ==
  LET rhs == Rhs(frame)
      lhs == Lhs(frame)
      f2 == Popped2(frame)
  IN IF lhs.tag = rhs.tag THEN push(f2, VBool(lhs = rhs))
     ELSE IF IsNum(lhs) /\ IsNum(rhs) THEN push(f2, VBool(AsF32(lhs) = AsF32(rhs)))
     ELSE raise(f2, "TypeError")

eq(frame) ==
  LET rhs == Rhs(frame)
      lhs == Lhs(frame)
      f2 == Popped2(frame)
  IN IF BothInt(lhs, rhs) THEN push(f2, VBool(lhs.i = rhs.i))
     ELSE IF IsNum(lhs) /\ IsNum(rhs) THEN push(f2, VBool(AsF32(lhs) = AsF32(rhs)))
     ELSE raise(f2, "TypeError")

(***************************************************************************)
(* VM (interp.rs).  A VM value is the record of the fields heap, bytecode, *)
(* frames, pc.  An Object is its fields map.  Option<T> is <<>> for None   *)
(* and <<x>> for Some(x).                                                  *)
(***************************************************************************)
ObjectNew == EmptyMap

VMNew(bytecode) == [heap |-> <<>>, bytecode |-> bytecode, frames |-> <<>>, pc |-> 0]

MainKey == <<GLOBAL_NSPACE, MAIN_FN>>

\* enter_main whose root frame returns to the pc it starts at
enter_main_ReturnsToEntry(vm) ==
  [vm EXCEPT !.pc = vm.bytecode.labels[MainKey],
             !.frames = Append(@, FrameNew("main", <<>>, vm.bytecode.labels[MainKey]))]

enter_main(vm) ==
  [vm EXCEPT !.pc = vm.bytecode.labels[MainKey],
             !.frames = Append(@, FrameNew("main", <<>>, Len(vm.bytecode.bytecode)))]

\* frames.iter().rev().enumerate(): the position, counted from the newest
\* frame, of the newest frame that has in_try set; len - 1 when there is none
TryIndex(frames) ==
  LET n == Len(frames)
      hits == {i \in 0..(n - 1) : frames[n - i].in_try}
  IN IF hits = {} THEN n - 1
     ELSE CHOOSE i \in hits : \A j \in hits : i <= j

\* unwind that stops at the root frame instead of discarding it
unwind_stack_on_raise_KeepsRoot(vm) ==
  IF Last(vm.frames).raise
  THEN LET kept == SubSeq(vm.frames, 1, 1)
       IN [vm EXCEPT !.frames = kept, !.pc = Last(kept).return_address]
  ELSE vm

\* unwind that drains the frames below the raising one down to the try frame
\* and leaves the raising frame on top
unwind_stack_on_raise_KeepsRaiser(vm) ==
  IF Last(vm.frames).raise
  THEN LET try_index == Len(vm.frames) - TryIndex(vm.frames) - 1
           kept == SubSeq(vm.frames, 1, try_index) \o <<Last(vm.frames)>>
       IN [vm EXCEPT !.frames = kept, !.pc = Last(kept).return_address]
  ELSE vm

unwind_stack_on_raise(vm) ==
  IF Last(vm.frames).raise
  THEN LET try_index == Len(vm.frames) - TryIndex(vm.frames) - 1
           kept == SubSeq(vm.frames, 1, try_index)
       IN IF kept # <<>>
          THEN [vm EXCEPT !.frames = kept, !.pc = Last(kept).return_address]
          ELSE [vm EXCEPT !.frames = kept, !.pc = UsizeMax]
  ELSE vm

\* first_mut for last_mut: the oldest frame is the one replaced
WithTop_First(vm, f) == [vm EXCEPT !.frames[1] = f]

\* the VM with its newest frame replaced by f
WithTop(vm, f) == [vm EXCEPT !.frames[Len(vm.frames)] = f]
Top(vm) == Last(vm.frames)
Advance(vm) == [vm EXCEPT !.pc = @ + 1]

\* `for _ in 0..n { locals.push(frame.pop()) }`: the values in pop order
RECURSIVE PopArgs(_, _)
PopArgs(stack, n) ==
  IF n = 0 THEN <<>> ELSE <<Last(stack)>> \o PopArgs(Front(stack), n - 1)
RECURSIVE reverse(_)
reverse(vec) == IF vec = <<>> THEN <<>> ELSE Append(reverse(Tail(vec)), Head(vec))

\* call that reads the arguments but leaves them on the caller's stack
call_KeepsArgs(vm, class_name, fn_name) ==
  LET key == <<class_name, fn_name>>
      n == vm.bytecode.symbols[key].num_params
      frame == Top(vm)
      locals == reverse(PopArgs(frame.stack, n))
      new_frame == FrameNew(fn_name, locals, vm.pc + 1)
  IN [vm EXCEPT !.frames = Append(@, new_frame),
                !.pc = vm.bytecode.labels[key]]

\* call without `locals.reverse()`: the parameters are in pop order
call_NoReverse(vm, class_name, fn_name) ==
  LET key == <<class_name, fn_name>>
      n == vm.bytecode.symbols[key].num_params
      frame == Top(vm)
      locals == PopArgs(frame.stack, n)
      caller == [frame EXCEPT !.stack = SubSeq(@, 1, Len(@) - n)]
      new_frame == FrameNew(fn_name, locals, vm.pc + 1)
  IN [WithTop(vm, caller) EXCEPT !.frames = Append(@, new_frame),
                                 !.pc = vm.bytecode.labels[key]]

\* call that records the pc of the Call itself as the return address
call_ReturnsToCall(vm, class_name, fn_name) ==
  LET key == <<class_name, fn_name>>
      n == vm.bytecode.symbols[key].num_params
      frame == Top(vm)
      locals == reverse(PopArgs(frame.stack, n))
      caller == [frame EXCEPT !.stack = SubSeq(@, 1, Len(@) - n)]
      new_frame == FrameNew(fn_name, locals, vm.pc)
  IN [WithTop(vm, caller) EXCEPT !.frames = Append(@, new_frame),
                                 !.pc = vm.bytecode.labels[key]]

call(vm, class_name, fn_name) ==
  LET key == <<class_name, fn_name>>
      n == vm.bytecode.symbols[key].num_params
      frame == Top(vm)
      locals == reverse(PopArgs(frame.stack, n))
      caller == [frame EXCEPT !.stack = SubSeq(@, 1, Len(@) - n)]
      new_frame == FrameNew(fn_name, locals, vm.pc + 1)
  IN [WithTop(vm, caller) EXCEPT !.frames = Append(@, new_frame),
                                 !.pc = vm.bytecode.labels[key]]

\* ret that returns the oldest value of the stack instead of its top
ret_Bottom(vm) ==
  LET frame == Top(vm)
      return_value == IF Len(frame.stack) > 0 THEN Head(frame.stack) ELSE NoneType
      return_address == frame.return_address
      rest == Front(vm.frames)
  IN [vm EXCEPT !.frames = [rest EXCEPT ![Len(rest)] = push(@, return_value)],
                !.pc = return_address]

\* ret that pushes the return value on the root frame
ret_OnRoot(vm) ==
  LET frame == Top(vm)
      return_value == IF Len(frame.stack) > 0 THEN Last(frame.stack) ELSE NoneType
      return_address == frame.return_address
      rest == Front(vm.frames)
  IN [vm EXCEPT !.frames = [rest EXCEPT ![1] = push(@, return_value)],
                !.pc = return_address]

ret(vm) ==
  LET frame == Top(vm)
      return_value == IF Len(frame.stack) > 0 THEN Last(frame.stack) ELSE NoneType
      return_address == frame.return_address
      rest == Front(vm.frames)
  IN [vm EXCEPT !.frames = [rest EXCEPT ![Len(rest)] = push(@, return_value)],
                !.pc = return_address]

\* new_object that takes the heap's length after the push as the reference
new_object_OffByOne(vm) ==
  LET heap == Append(vm.heap, ObjectNew)
      obj_ref == Len(heap)
  IN Advance([WithTop(vm, push(Top(vm), ObjectRef(obj_ref))) EXCEPT !.heap = heap])

\* new_object that pushes the reference without pushing the object
new_object_NoAlloc(vm) ==
  Advance(WithTop(vm, push(Top(vm), ObjectRef(Len(vm.heap)))))

new_object(vm) ==
  LET heap == Append(vm.heap, ObjectNew)
      obj_ref == Len(heap) - 1
  IN Advance([WithTop(vm, push(Top(vm), ObjectRef(obj_ref))) EXCEPT !.heap = heap])

load_field(vm, field_name) ==
  LET obj_ref == Last(Top(vm).stack)
      f1 == pop(Top(vm))
      obj == At(vm.heap, obj_ref.i)
  IN Advance(WithTop(vm, push(f1, obj[field_name])))

\* store_field that pops its operands and leaves the heap as it was, as a
\* store into a copy of the object would
store_field_IntoCopy(vm, field_name) ==
  LET f2 == pop(pop(Top(vm)))
  IN Advance(WithTop(vm, f2))

\* store_field that replaces the object by one that has only this field
store_field_DropsOthers(vm, field_name) ==
  LET obj_ref == Last(Top(vm).stack)
      value == Last(Front(Top(vm).stack))
      f2 == pop(pop(Top(vm)))
  IN Advance([WithTop(vm, f2) EXCEPT !.heap[obj_ref.i + 1] = MapInsert(EmptyMap, field_name, value)])

store_field(vm, field_name) ==
  LET obj_ref == Last(Top(vm).stack)
      value == Last(Front(Top(vm).stack))
      f2 == pop(pop(Top(vm)))
  IN Advance([WithTop(vm, f2) EXCEPT !.heap[obj_ref.i + 1] = MapInsert(@, field_name, value)])

\* a conditional jump that jumps on every value but Bool(~want)
jump_if_UnlessOpposite(vm, want, pos) ==
  LET v == Last(Top(vm).stack)
      vm1 == WithTop(vm, pop(Top(vm)))
  IN IF v # VBool(~want) THEN [vm1 EXCEPT !.pc = pos] ELSE Advance(vm1)

\* a conditional jump that looks at the payload of the value, not its tag
jump_if_ByPayload(vm, want, pos) ==
  LET v == Last(Top(vm).stack)
      vm1 == WithTop(vm, pop(Top(vm)))
  IN IF v.i = VBool(want).i THEN [vm1 EXCEPT !.pc = pos] ELSE Advance(vm1)

jump_if(vm, want, pos) ==
  LET v == Last(Top(vm).stack)
      vm1 == WithTop(vm, pop(Top(vm)))
  IN IF v = VBool(want) THEN [vm1 EXCEPT !.pc = pos] ELSE Advance(vm1)

\* the arm of `match self.bytecode.bytecode[self.pc]` for instr, for the
\* arms that neither break nor panic
Dispatch(vm, instr) ==
  LET op == instr.op
      frame == Top(vm)
  IN CASE op = "PushInt" -> Advance(WithTop(vm, push(frame, VInt(instr.n))))
       [] op = "PushStr" -> Advance(WithTop(vm, push(frame, VStr(instr.s))))
       [] op = "Pop" -> Advance(WithTop(vm, pop(frame)))
       [] op = "Dup" -> Advance(WithTop(vm, dup(frame)))
       [] op = "Add" -> Advance(WithTop(vm, add(frame)))
       [] op = "Sub" -> Advance(WithTop(vm, sub(frame)))
       [] op = "Lteq" -> Advance(WithTop(vm, lteq(frame)))
       [] op = "Gteq" -> Advance(WithTop(vm, gteq(frame)))
       [] op = "Lt" -> Advance(WithTop(vm, lt(frame)))
       [] op = "Gt" -> Advance(WithTop(vm, gt(frame)))
       [] op = "Eqeq" -> Advance(WithTop(vm, eq(frame)))
       [] op = "LoadVar" -> Advance(WithTop(vm, load_local(frame, instr.n)))
       [] op = "StoreVar" -> Advance(WithTop(vm, store_local(frame, instr.n)))
       [] op = "Raise" -> WithTop(vm, raise(frame, "Exception"))
       [] op = "NewObject" -> new_object(vm)
       [] op = "LoadField" -> load_field(vm, instr.s)
       [] op = "StoreField" -> store_field(vm, instr.s)
       [] op = "JumpIfTrue" -> jump_if(vm, TRUE, instr.n)
       [] op = "JumpIfFalse" -> jump_if(vm, FALSE, instr.n)
       [] op = "Jump" -> [vm EXCEPT !.pc = instr.n]
       [] op = "Call" -> call(vm, instr.c, instr.s)
       [] op = "Ret" -> ret(vm)

(***************************************************************************)
(* The panics of one loop iteration: the message of the panic!, unwrap,    *)
(* expect, assert_eq!, index or overflow check that fires when instr is    *)
(* dispatched in vm, "" when none does.  checks tells whether the build    *)
(* has integer overflow checks (debug profile) or wraps (release).         *)
(***************************************************************************)
ArithOps == {"Add", "Sub", "Lteq", "Gteq", "Lt", "Gt", "Eqeq"}

PanicOf(vm, instr, checks) ==
  LET op == instr.op
      stack == Top(vm).stack
      key == <<instr.c, instr.s>>
  IN IF op \in {"LoadGlobal", "StoreGlobal"} THEN "NotYetImplemented"
     ELSE IF op = "Swap" THEN "InstrNotImplemented"
     ELSE IF vm.frames = <<>> THEN "unwrap on None"
     ELSE CASE op \in {"Pop", "JumpIfTrue", "JumpIfFalse"} ->
                 IF stack = <<>> THEN "Popped from empty stack!" ELSE ""
            [] op = "Dup" -> IF stack = <<>> THEN "unwrap on None" ELSE ""
            [] op \in ArithOps ->
                 IF Len(stack) < 2 THEN "Popped from empty stack!"
                 ELSE IF checks /\ BothInt(Lhs(Top(vm)), Rhs(Top(vm)))
                         /\ ((op = "Add" /\ AddOverflows(Lhs(Top(vm)).i, Rhs(Top(vm)).i))
                             \/ (op = "Sub" /\ SubOverflows(Lhs(Top(vm)).i, Rhs(Top(vm)).i)))
                      THEN "attempt to add or subtract with overflow"
                      ELSE ""
            [] op = "LoadVar" ->
                 IF instr.n >= Len(Top(vm).locals) THEN "index out of bounds" ELSE ""
            [] op = "StoreVar" ->
                 IF stack = <<>> THEN "Popped from empty stack!"
                 ELSE IF instr.n > Len(Top(vm).locals) THEN "assertion failed: index == len"
                 ELSE ""
            [] op = "LoadField" ->
                 IF stack = <<>> THEN "Popped from empty stack!"
                 ELSE IF Last(stack).tag # "ObjectRef" THEN "Not a valid object"
                 ELSE IF Last(stack).i >= Len(vm.heap) THEN "unwrap on None"
                 ELSE IF ~HasKey(At(vm.heap, Last(stack).i), instr.s) THEN "Field not found"
                 ELSE ""
            [] op = "StoreField" ->
                 IF Len(stack) < 2 THEN "Popped from empty stack!"
                 ELSE IF Last(stack).tag # "ObjectRef" THEN "Not a valid object"
                 ELSE IF Last(stack).i >= Len(vm.heap) THEN "unwrap on None"
                 ELSE ""
            [] op = "Call" ->
                 IF ~HasKey(vm.bytecode.symbols, key) THEN "Function not found"
                 ELSE IF Len(stack) < vm.bytecode.symbols[key].num_params
                      THEN "Popped from empty stack!"
                 ELSE IF ~HasKey(vm.bytecode.labels, key) THEN "unwrap on None"
                 ELSE ""
            [] op = "Ret" -> IF Len(vm.frames) < 2 THEN "unwrap on None" ELSE ""
            [] OTHER -> ""

(***************************************************************************)
(* NativeType::pretty: the text of a value.  i32::to_string is computed    *)
(* digit by digit.                                                         *)
(***************************************************************************)
RECURSIVE NatDigits(_)
NatDigits(n) ==
  IF n < 10 THEN DigitChars[n + 1] ELSE NatDigits(n \div 10) \o DigitChars[(n % 10) + 1]
\* the digits of -n for n <= 0, without negating n (i32::MIN has no negation)
RECURSIVE NegDigits(_)
NegDigits(n) ==
  LET d == (10 - (n % 10)) % 10
      rest == (n + d) \div 10
  IN IF rest = 0 THEN DigitChars[d + 1] ELSE NegDigits(rest) \o DigitChars[d + 1]
\* to_string that leaves out the sign
I32ToString_NoSign(n) == IF n >= 0 THEN NatDigits(n) ELSE NegDigits(n)
I32ToString(n) == IF n >= 0 THEN NatDigits(n) ELSE "-" \o NegDigits(n)
\* f32::to_string of a value held in halves
F32ToString(h) ==
  IF h % 2 = 0 THEN I32ToString(h \div 2)
  ELSE IF h > 0 THEN NatDigits(h \div 2) \o ".5"
  ELSE "-" \o NatDigits((0 - h) \div 2) \o ".5"

pretty(v) ==
  CASE v.tag = "Int" -> I32ToString(v.i)
    [] v.tag = "Double" -> F32ToString(v.i)
    [] v.tag = "Bool" -> IF v.i = 1 THEN "true" ELSE "false"
    [] v.tag = "Str" -> v.s
    [] v.tag = "ObjectRef" -> "&" \o NatDigits(v.i)
    [] v.tag = "NoneType" -> "None"

\* interp::run: the text of the result of VM::run
RunText(res) == IF res = <<>> THEN "" ELSE pretty(res[1])

(***************************************************************************)
(* The source programs of the model.  Class global holds main and the      *)
(* helper functions of Helpers; class Foo holds a constructor.  main's     *)
(* body is any list of 1..MaxBody statements of MainStmts.  One more       *)
(* program has no main at all.                                             *)
(***************************************************************************)
L0 == EInt(<<"0">>)
L1 == EInt(<<"1">>)
L2 == EInt(<<"2">>)
LS == EStr("\"a\"")
BinToks == {"PLUS", "MINUS", "LTEQ", "GTEQ", "LT", "GT", "EQEQ"}

\* let i = i + 1
StepI == SLet("i", EBin(EVar("i"), "PLUS", L1))

\* def raiser() { raise }
\* def none() { let a = 1 }
\* def store(a) { let a = 2; 0; a }
\* def minus(a, b) { a - b }
\* def deep(a) { if a == 2 { raise }; 0 - deep(2) }
\* def rec() { 1 + rec() }
Helpers ==
  <<SDef("raiser", <<>>, <<SRaise>>),
    SDef("none", <<>>, <<SLet("a", L1)>>),
    SDef("store", <<"a">>, <<SLet("a", L2), SExp(L0), SExp(EVar("a"))>>),
    SDef("minus", <<"a", "b">>, <<SExp(EBin(EVar("a"), "MINUS", EVar("b")))>>),
    SDef("deep", <<"a">>, <<SIf(EBin(EVar("a"), "EQEQ", L2), <<SRaise>>),
                            SExp(EBin(L0, "MINUS", ECall("deep", <<L2>>)))>>),
    SDef("rec", <<>>, <<SExp(EBin(L1, "PLUS", ECall("rec", <<>>)))>>)>>

\* class Foo() { def construct(self, v) { self.f = v } }
ClassFoo == ClassDef("Foo", <<SDef("construct", <<"self", "v">>, <<SExp(EFieldSet("self", "f", EVar("v")))>>)>>)

MainStmts ==
  {SLet("x", L1), SLet("x", LS), SExp(EVar("x")), SExp(EVar("y")), SRaise,
   \* if 2 < 1 { let y = 0 }
   SIf(EBin(L2, "LT", L1), <<SLet("y", L0)>>),
   \* if 1 < 2 { if 2 < 1 { raise }; let z = 2 }
   SIf(EBin(L1, "LT", L2), <<SIf(EBin(L2, "LT", L1), <<SRaise>>), SLet("z", L2)>>),
   \* for (let i = 0; i < 2; let i = i + 1) { if i == 1 { let y = i } }
   SFor(SLet("i", L0), EBin(EVar("i"), "LT", L2), StepI,
        <<SIf(EBin(EVar("i"), "EQEQ", L1), <<SLet("y", EVar("i"))>>)>>),
   SLet("x", ENew("Foo", <<L2>>)),
   SExp(EFieldGet("x", "f")),
   SExp(EFieldGet("x", "g")),
   SExp(EBin(LS, "EQEQ", LS)),
   SExp(EBin(L1, "PLUS", ECall("raiser", <<>>))),
   SExp(ECall("none", <<>>)),
   SLet("x", ECall("store", <<EVar("x")>>)),
   SExp(EBin(L0, "MINUS", ECall("minus", <<L2, L1>>))),
   SExp(ECall("minus", <<L1>>)),
   SExp(ECall("deep", <<EVar("x")>>)),
   SExp(ECall("rec", <<>>)),
   SExp(ECall("nope", <<>>)),
   SExp(ECallRecv("x", "store", <<L1>>))}
  \cup {SExp(EBin(EVar("x"), t, L1)) : t \in BinToks}

RECURSIVE SeqsUpTo(_, _)
SeqsUpTo(S, n) ==
  IF n = 0 THEN {<<>>}
  ELSE LET shorter == SeqsUpTo(S, n - 1)
       IN shorter \cup {Append(q, x) : q \in shorter, x \in S}

MainBodies == SeqsUpTo(MainStmts, MaxBody) \ {<<>>}

Programs ==
  {Prog(<<ClassDef("global", <<SDef("main", <<>>, body)>> \o Helpers), ClassFoo>>) : body \in MainBodies}
  \cup {Prog(<<ClassFoo>>)}

(***************************************************************************)
(* The state                                                               *)
(***************************************************************************)
VARIABLES
  tree,       \* the parse tree handed to gen_bytecode
  context,    \* a CompilerContext whose methods are called one at a time
  status,     \* "parsed", "compiling", "compiled", "running", "returned" or "fatal"
  patched,    \* history: the positions handed to CompilerContext::patch
  marks,      \* history: what the emitters of gen_bytecode emitted where
  heap,       \* VM.heap
  bytecode,   \* VM.bytecode
  frames,     \* VM.frames
  pc,         \* VM.pc
  result,     \* the local `result` of VM::run
  published,  \* the String interp::run returns
  fatal,      \* the message of the panic that ended the behaviour, or ""
  calls,      \* history: for each frame above the root, the Call that made it
  news,       \* history: the NewObjects whose Pop is still to come
  last        \* history: the instruction the latest loop iteration fetched

vars == <<tree, context, status, patched, marks, heap, bytecode, frames, pc, result, published, fatal, calls, news, last>>

vmNow == [heap |-> heap, bytecode |-> bytecode, frames |-> frames, pc |-> pc]

NoBytecode == [bytecode |-> <<>>, symbols |-> EmptyMap, labels |-> EmptyMap]

\* op and at: the instruction fetched and its index; depth: the length of
\* frames when it was fetched; call: for a Ret, the history entry of its Call;
\* frames and heap: VM.frames and VM.heap when it was fetched
NoLast == [op |-> "", at |-> 0, depth |-> 0, call |-> <<>>, frames |-> <<>>, heap |-> <<>>]

\* the state when parse_input has parsed one of the programs of P
InitOf(P) ==
  /\ tree \in P
  /\ context = CompilerContextNew
  /\ status = "parsed"
  /\ patched = <<>>
  /\ marks = <<>>
  /\ heap = <<>>
  /\ bytecode = NoBytecode
  /\ frames = <<>>
  /\ pc = 0
  /\ result = <<>>
  /\ published = ""
  /\ fatal = ""
  /\ calls = <<>>
  /\ news = <<>>
  /\ last = NoLast

Init == InitOf(Programs)

\* parse_input, after parsing: gen_bytecode(tree) and Bytecode::new
Compile ==
  /\ status = "parsed"
  /\ LET ctx == gen_bytecode(tree)
     IN IF Panicked(ctx)
        THEN /\ status' = "fatal"
             /\ fatal' = ctx.panic
             /\ UNCHANGED <<bytecode, patched, marks>>
        ELSE /\ status' = "compiled"
             /\ bytecode' = BytecodeNew(ctx)
             /\ patched' = ctx.patched
             /\ marks' = ctx.marks
             /\ fatal' = ""
  /\ UNCHANGED <<tree, context, heap, frames, pc, result, published, calls, news, last>>

\* interp::run up to the loop of VM::run: VM::new and enter_main
Start ==
  /\ status = "compiled"
  /\ IF ~HasKey(bytecode.labels, MainKey)
     THEN /\ status' = "fatal"
          /\ fatal' = "Main method not found"
          /\ UNCHANGED <<heap, frames, pc>>
     ELSE LET vm == enter_main(VMNew(bytecode))
          IN /\ status' = "running"
             /\ heap' = vm.heap
             /\ frames' = vm.frames
             /\ pc' = vm.pc
             /\ fatal' = ""
  /\ UNCHANGED <<tree, context, patched, marks, bytecode, result, published, calls, news, last>>

\* a loop that treats Ret like Exit
Breaks_OnRet(vm) ==
  \/ vm.pc >= Len(vm.bytecode.bytecode)
  \/ At(vm.bytecode.bytecode, vm.pc).op \in {"Exit", "Ret"}

\* the two `break`s of the loop of VM::run: the pc is at or past the end of
\* the bytecode, or the instruction at the pc is Exit
Breaks(vm) ==
  \/ vm.pc >= Len(vm.bytecode.bytecode)
  \/ At(vm.bytecode.bytecode, vm.pc).op = "Exit"

\* a result taken from the bottom of the stack
ResultAtBreak_Bottom(vm) ==
  IF vm.frames = <<>> \/ Top(vm).stack = <<>> THEN <<>> ELSE <<Top(vm).stack[1]>>

\* `result` at a break: the top of the newest frame's stack, if there is one
ResultAtBreak(vm) == IF vm.frames = <<>> THEN <<>> ELSE peek(Top(vm))

\* the history entry of the Call at vm.pc
CallRecord(vm, instr) ==
  [at |-> vm.pc,
   n |-> vm.bytecode.symbols[<<instr.c, instr.s>>].num_params,
   stack |-> Top(vm).stack,
   locals |-> Top(vm).locals]

\* the history of pending NewObjects after instr: a NewObject adds the frame
\* it ran in, that frame's stack before it and the heap index it allocates;
\* the Pop that gen_exp emits after the constructor call closes the newest
\* one of its frame; those of discarded frames are dropped
NewsAfter(vm, instr, depth) ==
  LET opened == [frame |-> Len(vm.frames), base |-> Top(vm).stack, ref |-> Len(vm.heap)]
      n1 == IF instr.op = "NewObject" THEN Append(news, opened)
            ELSE IF instr.op = "Pop" /\ news # <<>> /\ Last(news).frame = Len(vm.frames)
                 THEN Front(news)
                 ELSE news
      InFrames(e) == e.frame <= depth
  IN SelectSeq(n1, InFrames)

\* one iteration of the loop of VM::run, the unwind_stack_on_raise that ends
\* it included; at a break, the rest of VM::run and of interp::run as well
Tick ==
  /\ status = "running"
  /\ IF pc >= Len(bytecode.bytecode)
     THEN /\ status' = "returned"
          /\ result' = ResultAtBreak(vmNow)
          /\ published' = RunText(ResultAtBreak(vmNow))
          /\ UNCHANGED <<heap, frames, pc, fatal, calls, news, last>>
     ELSE LET instr == At(bytecode.bytecode, pc)
              fetched == [op |-> instr.op, at |-> pc, depth |-> Len(frames), call |-> <<>>,
                          frames |-> frames, heap |-> heap]
          IN \E checks \in BOOLEAN :
               IF PanicOf(vmNow, instr, checks) # ""
               THEN /\ status' = "fatal"
                    /\ fatal' = PanicOf(vmNow, instr, checks)
                    /\ last' = fetched
                    /\ UNCHANGED <<heap, frames, pc, result, published, calls, news>>
               ELSE IF Breaks(vmNow)
               THEN /\ status' = "returned"
                    /\ result' = ResultAtBreak(vmNow)
                    /\ published' = RunText(ResultAtBreak(vmNow))
                    /\ last' = fetched
                    /\ UNCHANGED <<heap, frames, pc, fatal, calls, news>>
               ELSE /\ instr.op = "Call" => Len(frames) < MaxFrames
                    /\ instr.op = "NewObject" => Len(heap) < MaxHeap
                    /\ LET vm == unwind_stack_on_raise(Dispatch(vmNow, instr))
                       IN /\ heap' = vm.heap
                          /\ frames' = vm.frames
                          /\ pc' = vm.pc
                          /\ calls' = IF instr.op = "Call"
                                       THEN Append(calls, CallRecord(vmNow, instr))
                                       ELSE SubSeq(calls, 1, Len(vm.frames) - 1)
                          /\ news' = NewsAfter(vmNow, instr, Len(vm.frames))
                    /\ last' = IF instr.op = "Ret"
                               THEN [fetched EXCEPT !.call = <<Last(calls)>>]
                               ELSE fetched
                    /\ UNCHANGED <<status, result, published, fatal>>
  /\ UNCHANGED <<tree, context, patched, marks, bytecode>>

Next == Compile \/ Start \/ Tick

Spec == Init /\ [][Next]_vars

(***************************************************************************)
(* The same program on the sources whose every call names a defined        *)
(* function of matching arity and whose every `let` is on every path: the  *)
(* only panic left to the VM is the read of a field the object lacks.      *)
(***************************************************************************)
FieldStmts ==
  {SLet("x", ENew("Foo", <<L2>>)), SExp(EFieldGet("x", "f")), SExp(EFieldGet("x", "g")),
   SRaise, SExp(EBin(L1, "PLUS", ECall("raiser", <<>>))), SExp(ECall("none", <<>>)),
   SExp(EBin(L0, "MINUS", ECall("minus", <<L2, L1>>)))}

FieldPrograms ==
  {Prog(<<ClassDef("global", <<SDef("main", <<>>, body)>> \o Helpers), ClassFoo>>) :
     body \in SeqsUpTo(FieldStmts, MaxBody) \ {<<>>}}

InitFields == Init /\ tree \in FieldPrograms

SpecFields == InitFields /\ [][Next]_vars

(***************************************************************************)
(* Vocabulary of the properties                                            *)


(***************************************************************************)
(* Object programs.  Classes Foo, Bar and Two hold constructors of one,    *)
(* none and two parameters beside self; Foo also holds a function named    *)
(* main.  Class global holds main and def setf(o) { o.f = 5 }.  main is    *)
(* `let x = new Foo(2); let y = x` followed by 1..MaxBody of ObjStmts.     *)
(***************************************************************************)
\* class Foo() { def construct(self, v) { self.f = v }; def main() { 0 } }
\* class Bar() { def construct(self) { 7 } }
\* class Two() { def construct(self, a, b) { self.f = a; self.g = b } }
ObjClasses ==
  <<ClassDef("Foo", <<SDef("construct", <<"self", "v">>, <<SExp(EFieldSet("self", "f", EVar("v")))>>),
                      SDef("main", <<>>, <<SExp(L0)>>)>>),
    ClassDef("Bar", <<SDef("construct", <<"self">>, <<SExp(EInt(<<"7">>))>>)>>),
    ClassDef("Two", <<SDef("construct", <<"self", "a", "b">>,
                           <<SExp(EFieldSet("self", "f", EVar("a"))),
                             SExp(EFieldSet("self", "g", EVar("b")))>>)>>)>>

ObjStmts ==
  {SLet("x", ENew("Two", <<L1, L2>>)),
   SLet("y", ENew("Foo", <<ENew("Bar", <<>>)>>)),
   SExp(ENew("Bar", <<>>)),
   SExp(EFieldSet("y", "f", EInt(<<"5">>))),
   SExp(ECall("setf", <<EVar("y")>>)),
   SExp(EFieldGet("x", "f")),
   SExp(EFieldGet("x", "g"))}

ObjProgram(body) ==
  Prog(<<ClassDef("global",
                  <<SDef("main", <<>>, <<SLet("x", ENew("Foo", <<L2>>)), SLet("y", EVar("x"))>> \o body),
                    SDef("setf", <<"o">>, <<SExp(EFieldSet("o", "f", EInt(<<"5">>)))>>)>>)>>
       \o ObjClasses)
ObjPrograms == {ObjProgram(body) : body \in SeqsUpTo(ObjStmts, MaxBody) \ {<<>>}}

InitObj == InitOf(ObjPrograms)
SpecObj == InitObj /\ [][Next]_vars


(***************************************************************************)
(* Bytecode handed to interp::run directly (the fields of Bytecode are     *)
(* public): up to MaxRaw of the instructions below, an empty symbol table  *)
(* (Fn has no public constructor), and labels that either lack             *)
(* (global, main) or send it to a position from 0 to the length of the     *)
(* instructions.  No parse tree and no compilation come before the run.    *)
(***************************************************************************)
RawInstrs == {PushInt(1), PushStr("a"), Dup, Pop, Lt, NewObject, Raise, Exit}
RawBytecodes ==
  UNION {{[bytecode |-> code, symbols |-> EmptyMap, labels |-> labels] :
            labels \in {EmptyMap} \cup {MapInsert(EmptyMap, MainKey, k) : k \in 0..Len(code)}} :
         code \in SeqsUpTo(RawInstrs, MaxRaw)}
NoTree == Nonterm("", <<>>)

InitRaw ==
  /\ tree = NoTree
  /\ context = CompilerContextNew
  /\ status = "compiled"
  /\ patched = <<>>
  /\ marks = <<>>
  /\ heap = <<>>
  /\ bytecode \in RawBytecodes
  /\ frames = <<>>
  /\ pc = 0
  /\ result = <<>>
  /\ published = ""
  /\ fatal = ""
  /\ calls = <<>>
  /\ news = <<>>
  /\ last = NoLast

NextRaw == Start \/ Tick
SpecRaw == InitRaw /\ [][NextRaw]_vars

(***************************************************************************)
(* The VM in the middle of a run, one state for each combination the       *)
(* types of VM and Frame allow of what follows.  The newest frame has a    *)
(* stack of up to two values of any of the six variants of NativeType, up  *)
(* to two locals, and either in_try; below it stand up to MaxBelow frames, *)
(* each with either in_try.  The bytecode is one instruction, or Dup and   *)
(* Pop in either order, and the pc is at its start.  Double values and     *)
(* frames in a try region are among these states although no instruction   *)
(* and no statement of the grammar builds them: the arms of VM::run and     *)
(* the methods of Frame are written for them.                              *)
(***************************************************************************)
MidValues == {VInt(1), VDouble(3), VBool(TRUE), VBool(FALSE), VStr("a"), ObjectRef(0), NoneType}
MidStacks == SeqsUpTo(MidValues, 2)
MidLocals == {<<>>, <<VInt(5)>>, <<VInt(5), VStr("b")>>}
MidInstrs ==
  {Pop, Dup, Add, Sub, Lteq, Gteq, Lt, Gt, Eqeq, Raise, Ret, LoadVar(0),
   JumpIfTrue(2), JumpIfFalse(2)}
  \cup {StoreVar(i) : i \in 0..3}
MidCodes == {<<instr>> : instr \in MidInstrs} \cup {<<Dup, Pop>>, <<Pop, Dup>>}

\* the k-th frame from the root: the root returns to the end of the bytecode
\* (enter_main), a frame above it to the instruction after its Call
MidFrame(k, len, stack, locals, in_try) ==
  [FrameNew(IF k = 1 THEN "main" ELSE "f", locals, IF k = 1 THEN len ELSE 1)
     EXCEPT !.stack = stack, !.in_try = in_try]
MidFrames(len) ==
  UNION {{[k \in 1..(d + 1) |->
             IF k <= d THEN MidFrame(k, len, <<VInt(7)>>, <<>>, below[k])
             ELSE MidFrame(k, len, stack, locals, in_try)] :
            below \in [1..d -> BOOLEAN], stack \in MidStacks,
            locals \in MidLocals, in_try \in BOOLEAN} :
         d \in 0..MaxBelow}
\* the history entry of a Call the run does not tell
NoCall == [at |-> 0, n |-> 0, stack |-> <<>>, locals |-> <<>>]

InitMid ==
  /\ tree = NoTree
  /\ context = CompilerContextNew
  /\ status = "running"
  /\ patched = <<>>
  /\ marks = <<>>
  /\ heap = <<ObjectNew>>
  /\ \E code \in MidCodes :
       /\ bytecode = [bytecode |-> code, symbols |-> EmptyMap,
                      labels |-> MapInsert(EmptyMap, MainKey, 0)]
       /\ frames \in MidFrames(Len(code))
  /\ pc = 0
  /\ result = <<>>
  /\ published = ""
  /\ fatal = ""
  /\ calls = [k \in 1..(Len(frames) - 1) |-> NoCall]
  /\ news = <<>>
  /\ last = NoLast

NextMid == Tick
SpecMid == InitMid /\ [][NextMid]_vars

(***************************************************************************)
(* Arithmetic programs: main's body is one expression, an integer literal  *)
(* of ArithLexemes, `l op r` for literals l and r of ArithOperands and any *)
(* operator, or a subtraction nested to the left or to the right.  The     *)
(* lexemes are the texts str::parse::<i32> is handed: with leading zeros,  *)
(* with a sign, at and one past either end of i32.                         *)
(***************************************************************************)
LexMax == <<"2", "1", "4", "7", "4", "8", "3", "6", "4", "7">>
LexMin == <<"-", "2", "1", "4", "7", "4", "8", "3", "6", "4", "8">>
ArithOperands == {<<"6">>, <<"6", "6">>, <<"6", "6", "6">>, <<"-", "1">>, LexMax, LexMin}
ArithLexemes ==
  ArithOperands
  \cup {<<"0">>, <<"0", "0", "7">>, <<"+", "5">>, <<"-", "0">>,
        <<"2", "1", "4", "7", "4", "8", "3", "6", "4", "8">>,
        <<"-", "2", "1", "4", "7", "4", "8", "3", "6", "4", "9">>}
ArithExps ==
  {EInt(ds) : ds \in ArithLexemes}
  \cup {EBin(EInt(l), t, EInt(r)) : l \in ArithOperands, r \in ArithOperands, t \in BinToks}
  \cup {EBin(EBin(EInt(<<"6", "6", "6">>), "MINUS", EInt(<<"6", "6">>)), "MINUS", EInt(<<"6">>)),
        EBin(EInt(<<"6", "6", "6">>), "MINUS", EBin(EInt(<<"6", "6">>), "MINUS", EInt(<<"6">>)))}
ArithProgram(e) == Prog(<<ClassDef("global", <<SDef("main", <<>>, <<SExp(e)>>)>>)>>)
ArithPrograms == {ArithProgram(e) : e \in ArithExps}

InitArith == InitOf(ArithPrograms)
SpecArith == InitArith /\ [][Next]_vars

(***************************************************************************)
(* Programs with nested calls: main's body is 1..MaxBody of the statements *)
(* below; beside it stand                                                  *)
(*   def outer(a, b) { let c = inner(b, a); c - a }                        *)
(*   def inner(x, y) { x - y }                                             *)
(*   def thrower(a) { a + raiser() }                                       *)
(*   def raiser() { raise }                                                *)
(***************************************************************************)
CallHelpers ==
  <<SDef("outer", <<"a", "b">>,
         <<SLet("c", ECall("inner", <<EVar("b"), EVar("a")>>)),
           SExp(EBin(EVar("c"), "MINUS", EVar("a")))>>),
    SDef("inner", <<"x", "y">>, <<SExp(EBin(EVar("x"), "MINUS", EVar("y")))>>),
    SDef("thrower", <<"a">>, <<SExp(EBin(EVar("a"), "PLUS", ECall("raiser", <<>>)))>>),
    SDef("raiser", <<>>, <<SRaise>>)>>
CallStmts ==
  {SExp(L1),
   SExp(ECall("outer", <<L1, L2>>)),
   SLet("x", ECall("outer", <<L2, L1>>)),
   \* 1 - outer(2, 1)
   SExp(EBin(L1, "MINUS", ECall("outer", <<L2, L1>>))),
   \* inner(outer(1, 2), 2)
   SExp(ECall("inner", <<ECall("outer", <<L1, L2>>), L2>>)),
   \* 2 - thrower(1)
   SExp(EBin(L2, "MINUS", ECall("thrower", <<L1>>)))}
CallProgram(body) == Prog(<<ClassDef("global", <<SDef("main", <<>>, body)>> \o CallHelpers)>>)
CallPrograms == {CallProgram(body) : body \in SeqsUpTo(CallStmts, MaxBody) \ {<<>>}}

InitCalls == InitOf(CallPrograms)
SpecCalls == InitCalls /\ [][Next]_vars

(***************************************************************************)
(* Field programs.  main is `let x = new Foo(2); let y = x` and the classes *)
(* those of the object programs, followed by 1..MaxBody of SetStmts: field *)
(* assignments whose value is a literal, a sum, a field, a new object, a   *)
(* call and a field assignment, on a field the object has and on one it    *)
(* lacks, reads and writes of fields through a variable holding 1, and a   *)
(* raise.                                                                  *)
(***************************************************************************)
SetStmts ==
  {SExp(EFieldSet("x", "f", L1)),
   SExp(EFieldSet("x", "g", EBin(L1, "PLUS", L2))),
   SExp(EFieldSet("y", "g", EFieldGet("x", "f"))),
   SExp(EFieldSet("x", "g", ENew("Bar", <<>>))),
   SExp(EFieldSet("x", "f", ECall("setf", <<EVar("y")>>))),
   \* x.f = y.g = 1
   SExp(EFieldSet("x", "f", EFieldSet("y", "g", L1))),
   SLet("x", L1),
   SExp(EFieldGet("x", "f")),
   SExp(EFieldGet("x", "g")),
   SRaise}

SetPrograms == {ObjProgram(body) : body \in SeqsUpTo(SetStmts, MaxBody) \ {<<>>}}

InitSet == InitOf(SetPrograms)
SpecSet == InitSet /\ [][Next]_vars

(***************************************************************************)
(* Programs that declare: main's body is 1..MaxBody of DeclStmts, among    *)
(* them a function defined inside main and a second definition of f;       *)
(* beside main stand                                                       *)
(*   def f(a, b) { let c = 1; let a = 2; let d = 0; let c = 2; c }         *)
(*   def twice(p, p) { p }                                                 *)
(***************************************************************************)
DeclHelpers ==
  <<SDef("f", <<"a", "b">>, <<SLet("c", L1), SLet("a", L2), SLet("d", L0), SLet("c", L2), SExp(EVar("c"))>>),
    SDef("twice", <<"p", "p">>, <<SExp(EVar("p"))>>)>>
DeclStmts ==
  {SLet("x", L1), SLet("y", L2), SLet("x", L0),
   SExp(ECall("f", <<L1, L2>>)),
   \* def g(p, q) { let r = 1; let p = 2 }
   SDef("g", <<"p", "q">>, <<SLet("r", L1), SLet("p", L2)>>),
   \* def f(z) { let y = 1 }
   SDef("f", <<"z">>, <<SLet("y", L1)>>),
   \* def h() { 1 }
   SDef("h", <<>>, <<SExp(L1)>>)}
DeclProgram(body) == Prog(<<ClassDef("global", <<SDef("main", <<>>, body)>> \o DeclHelpers)>>)
DeclPrograms == {DeclProgram(body) : body \in SeqsUpTo(DeclStmts, MaxBody) \ {<<>>}}

InitDecl == InitOf(DeclPrograms)
SpecDecl == InitDecl /\ [][Next]_vars

(***************************************************************************)
(* Programs that compare with ==: main's body is 1..MaxBody of EqStmts,    *)
(* which compare two strings, two booleans, two integers and two None      *)
(* values, in main and through def same(a, b) { a == b };                 *)
(* def nothing() { let a = 1 } returns None.                               *)
(***************************************************************************)
EqHelpers ==
  <<SDef("same", <<"a", "b">>, <<SExp(EBin(EVar("a"), "EQEQ", EVar("b")))>>),
    SDef("nothing", <<>>, <<SLet("a", L1)>>)>>
EqStmts ==
  {SExp(EBin(LS, "EQEQ", LS)),
   SExp(EBin(EBin(L1, "LT", L2), "EQEQ", EBin(L1, "LT", L2))),
   SExp(EBin(L1, "EQEQ", L1)),
   SExp(EBin(ECall("nothing", <<>>), "EQEQ", ECall("nothing", <<>>))),
   SExp(ECall("same", <<LS, EStr("\"b\"")>>)),
   SExp(ECall("same", <<EBin(L1, "LT", L2), EBin(L2, "LT", L1)>>)),
   SExp(ECall("same", <<L1, L2>>))}
EqProgram(body) == Prog(<<ClassDef("global", <<SDef("main", <<>>, body)>> \o EqHelpers)>>)
EqPrograms == {EqProgram(body) : body \in SeqsUpTo(EqStmts, MaxBody) \ {<<>>}}

InitEq == InitOf(EqPrograms)
SpecEq == InitEq /\ [][Next]_vars

(***************************************************************************)
(* Programs of conditionals and calls: if statements whose condition is    *)
(* true, false or no Bool, nested ifs, helpers that call helpers, a raise, *)
(* a definition nested in main, and, beside them, a for loop whose         *)
(* condition stays true and a nested function that calls itself.  The      *)
(* interpreter loop runs on until a break or a panic, so a compiled        *)
(* program is started and each tick is followed by the next: weak fairness *)
(* of Start and Tick.                                                      *)
(***************************************************************************)
HaltHelpers ==
  <<SDef("pick", <<"a">>, <<SIf(EBin(EVar("a"), "EQEQ", L1), <<SLet("a", L2)>>), SExp(EVar("a"))>>),
    SDef("both", <<"a">>, <<SExp(EBin(ECall("pick", <<EVar("a")>>), "MINUS", ECall("pick", <<L2>>)))>>)>>
HaltStmts ==
  {SIf(EBin(L1, "LT", L2), <<SLet("x", L2)>>),
   SIf(EBin(L2, "LT", L1), <<SRaise>>),
   SIf(L1, <<SLet("x", L1)>>),
   SIf(EBin(L1, "LT", L2), <<SIf(EBin(L2, "LT", L1), <<SRaise>>), SExp(ECall("pick", <<L1>>))>>),
   SExp(ECall("both", <<L1>>)),
   SRaise,
   SDef("h", <<>>, <<SExp(ECall("pick", <<L2>>))>>),
   SFor(SLet("i", L0), EBin(L1, "LT", L2), SLet("i", L0), <<SLet("i", L1)>>),
   SDef("rec", <<>>, <<SExp(EBin(L1, "PLUS", ECall("rec", <<>>)))>>)}
HaltProgram(body) == Prog(<<ClassDef("global", <<SDef("main", <<>>, body)>> \o HaltHelpers)>>)
HaltPrograms == {HaltProgram(body) : body \in SeqsUpTo(HaltStmts, MaxBody) \ {<<>>}}

InitHalt == InitOf(HaltPrograms)
SpecHalt == InitHalt /\ [][Next]_vars /\ WF_vars(Start \/ Tick)

(***************************************************************************)
(* The compiler context driven one call at a time: gen_bc appends one of a *)
(* few instructions, patch is handed any position up to the length.  A     *)
(* panic of patch ends the behaviour.  last records the call made: op is   *)
(* the method's name and at the position it was given.                     *)
(***************************************************************************)
CtxInstrs == {JumpIfTrue(PLACEHOLDER), JumpIfFalse(PLACEHOLDER), Jump(PLACEHOLDER), Jump(0), Pop, PushInt(1)}

InitCtx ==
  /\ tree = NoTree
  /\ context = CompilerContextNew
  /\ status = "compiling"
  /\ patched = <<>>
  /\ marks = <<>>
  /\ heap = <<>>
  /\ bytecode = NoBytecode
  /\ frames = <<>>
  /\ pc = 0
  /\ result = <<>>
  /\ published = ""
  /\ fatal = ""
  /\ calls = <<>>
  /\ news = <<>>
  /\ last = NoLast

\* ctx.gen_bc(instr)
CtxGenBc ==
  /\ status = "compiling"
  /\ Len(context.bytecode) < MaxRaw
  /\ \E instr \in CtxInstrs :
       /\ context' = gen_bc(context, instr)
       /\ last' = [NoLast EXCEPT !.op = "gen_bc", !.at = GenPos(context)]
  /\ UNCHANGED <<tree, status, patched, marks, heap, bytecode, frames, pc, result, published, fatal, calls, news>>

\* ctx.patch(pos)
CtxPatch ==
  /\ status = "compiling"
  /\ Len(context.patched) < MaxRaw
  /\ \E pos \in 0..Len(context.bytecode) :
       /\ context' = patch(context, pos)
       /\ last' = [NoLast EXCEPT !.op = "patch", !.at = pos]
       /\ status' = IF Panicked(patch(context, pos)) THEN "fatal" ELSE "compiling"
       /\ fatal' = patch(context, pos).panic
  /\ UNCHANGED <<tree, patched, marks, heap, bytecode, frames, pc, result, published, calls, news>>

NextCtx == CtxGenBc \/ CtxPatch
SpecCtx == InitCtx /\ [][NextCtx]_vars

(***************************************************************************)
(* Control-flow programs: main is `let x = 0` followed by 1..MaxBody of    *)
(* the statements below and a final read of x; beside it stands            *)
(* def bump(x) { let x = x + 1; x }.                                       *)
(***************************************************************************)
StepJ == SLet("j", EBin(EVar("j"), "PLUS", L1))
IncX == SLet("x", EBin(EVar("x"), "PLUS", L1))
\* for (let i = 0; i < 2; let i = i + 1) {
\*   for (let j = 0; j < 2; let j = j + 1) { let x = x + 1 } }
NestedFor ==
  SFor(SLet("i", L0), EBin(EVar("i"), "LT", L2), StepI,
       <<SFor(SLet("j", L0), EBin(EVar("j"), "LT", L2), StepJ, <<IncX>>)>>)
FlowStmts ==
  {SLet("x", L1),
   \* let x = bump(x)
   SLet("x", ECall("bump", <<EVar("x")>>)),
   \* if 1 < 2 { let x = 2 }
   SIf(EBin(L1, "LT", L2), <<SLet("x", L2)>>),
   \* if 2 < 1 { let x = 2 }
   SIf(EBin(L2, "LT", L1), <<SLet("x", L2)>>),
   \* if 1 { let x = 2 }
   SIf(L1, <<SLet("x", L2)>>),
   \* if x == 1 { if 2 < x { let x = 0 }; let x = x + 1 }
   SIf(EBin(EVar("x"), "EQEQ", L1), <<SIf(EBin(L2, "LT", EVar("x")), <<SLet("x", L0)>>), IncX>>),
   \* for (let i = 0; i < 2; let i = i + 1) { let x = x + 1 }
   SFor(SLet("i", L0), EBin(EVar("i"), "LT", L2), StepI, <<IncX>>),
   NestedFor,
   \* for (let i = x; i < 2; let i = i + 1) { if i == 1 { let x = i } }
   SFor(SLet("i", EVar("x")), EBin(EVar("i"), "LT", L2), StepI,
        <<SIf(EBin(EVar("i"), "EQEQ", L1), <<SLet("x", EVar("i"))>>)>>)}

FlowProgram(body) ==
  Prog(<<ClassDef("global", <<SDef("main", <<>>, <<SLet("x", L0)>> \o body \o <<SExp(EVar("x"))>>),
                              SDef("bump", <<"x">>, <<IncX, SExp(EVar("x"))>>)>>)>>)
FlowPrograms == {FlowProgram(body) : body \in SeqsUpTo(FlowStmts, MaxBody) \ {<<>>}}

InitFlow == InitOf(FlowPrograms)
SpecFlow == InitFlow /\ [][Next]_vars

(***************************************************************************)
Code == bytecode.bytecode
\* the loop is about to fetch the instruction at pc
Fetching == status = "running" /\ pc < Len(Code)
CurInstr == At(Code, pc)
\* this step is a loop iteration that dispatched an instruction of opcode op
\* and did not panic
Executes(op) == Fetching /\ CurInstr.op = op /\ status' = "running"
Depth == Len(frames)
\* the loop has ended by a panic of the VM (not of the compiler or of enter_main)
LoopPanicked == status = "fatal" /\ last.op # ""
\* the run is over after an unwind that left no frame
UnwoundToRoot == frames = <<>> /\ pc = UsizeMax

(***************************************************************************)
(* C1 (as stated): VM.run stops only if it executes Exit, the pc reaches   *)
(* or passes the end of the instructions, or a raise propagates with no    *)
(* catching frame; the loop stops in no other reachable state.             *)
(***************************************************************************)
C1_StopsOnlyByExitEndOrRaise ==
  (status = "returned" \/ LoopPanicked) =>
     \/ pc < Len(Code) /\ CurInstr.op = "Exit" /\ last.op = "Exit"
     \/ pc >= Len(Code) /\ pc # UsizeMax
     \/ UnwoundToRoot

(***************************************************************************)
(* C1 (amended): VM.run returns exactly when it executes Exit, when the pc *)
(* is at or past the end of the instructions, or when a raise has unwound  *)
(* every frame; the only other way the loop ends is a panic, on which      *)
(* nothing is published.  While running, a pc at or past the end or an     *)
(* Exit on a live frame make the next step the return.                     *)
(***************************************************************************)
C1_ReturnsByExitEndOrRaise_State ==
  /\ status = "returned" =>
       \/ pc < Len(Code) /\ CurInstr.op = "Exit" /\ last.op = "Exit"
       \/ pc >= Len(Code) /\ pc # UsizeMax
       \/ UnwoundToRoot
  /\ LoopPanicked => (fatal # "" /\ published = "" /\ result = <<>>)
  /\ status \in {"parsed", "compiled", "running", "returned", "fatal"}

C1_ReturnsByExitEndOrRaise_Step ==
  /\ (status = "running" /\ pc >= Len(Code)) => status' = "returned"
  /\ (Fetching /\ CurInstr.op = "Exit" /\ frames # <<>>) => status' = "returned"
  /\ (Fetching /\ CurInstr.op # "Exit" /\ status' # "running") =>
        (status' = "fatal" /\ fatal' # "")

C1_ReturnsByExitEndOrRaise ==
  [](C1_ReturnsByExitEndOrRaise_State) /\ [][C1_ReturnsByExitEndOrRaise_Step]_vars

\* the loop has ended in each of its ways: here by the panic of a field read
C1_Witness == LoopPanicked /\ fatal = "Field not found" /\ last.op = "LoadField"

(***************************************************************************)
(* C2: when a Raise instruction executes, in any frame at any call depth,  *)
(* every frame is discarded in that same iteration and the pc leaves the   *)
(* program; the next iteration fetches nothing and returns with no result, *)
(* and the published text is the empty string.                             *)
(***************************************************************************)
C2_RaiseUnwindsToRoot_State ==
  last.op = "Raise" =>
    /\ UnwoundToRoot
    /\ status \in {"running", "returned"}
    /\ result = <<>> /\ published = ""

C2_RaiseUnwindsToRoot_Step ==
  /\ Executes("Raise") => (frames' = <<>> /\ pc' = UsizeMax)
  /\ (Fetching /\ CurInstr.op = "Raise" /\ frames # <<>>) => status' = "running"
  /\ (status = "running" /\ last.op = "Raise") =>
        (status' = "returned" /\ result' = <<>> /\ published' = "" /\ last' = last)

C2_RaiseUnwindsToRoot ==
  [](C2_RaiseUnwindsToRoot_State) /\ [][C2_RaiseUnwindsToRoot_Step]_vars

\* a run that has returned after a Raise executed two calls deep
C2_Witness ==
  status = "returned" /\ last.op = "Raise" /\ last.depth = 3 /\ published = ""

(***************************************************************************)
(* C3: when Add, Sub, Lt, Lteq, Gt, Gteq or Eqeq pops two operands that    *)
(* are not both Int or Double, the iteration does not panic: the frame's   *)
(* raise flag is set with ObjectRef(EXCEPTION_PTR) and Str("TypeError")    *)
(* pushed, the unwind of that same iteration discards every frame, and the *)
(* next iteration returns with the empty string published.                 *)
(***************************************************************************)
TypeMismatch ==
  /\ Fetching /\ CurInstr.op \in ArithOps
  /\ frames # <<>> /\ Len(Last(frames).stack) >= 2
  /\ ~(IsNum(Lhs(Last(frames))) /\ IsNum(Rhs(Last(frames))))

C3_TypeErrorRaises_Step ==
  /\ TypeMismatch =>
        LET f == Top(Dispatch(vmNow, CurInstr))
        IN /\ f.raise
           /\ Len(f.stack) = Len(Last(frames).stack)
           /\ Last(f.stack) = VStr("TypeError")
           /\ Last(Front(f.stack)) = ObjectRef(EXCEPTION_PTR)
           /\ status' = "running" /\ fatal' = ""
           /\ frames' = <<>> /\ pc' = UsizeMax
  /\ (status = "running" /\ last.op \in ArithOps /\ UnwoundToRoot) =>
        (status' = "returned" /\ result' = <<>> /\ published' = "" /\ last' = last)

C3_TypeErrorRaises == [][C3_TypeErrorRaises_Step]_vars

\* a run that has returned after Eqeq met two strings
C3_Witness ==
  status = "returned" /\ last.op = "Eqeq" /\ UnwoundToRoot /\ published = ""

\* num_params of the function the Call at pc names
CalleeParams == bytecode.symbols[<<CurInstr.c, CurInstr.s>>].num_params
\* the part of the caller's stack that lay below the arguments of call k
BelowArgs(c) == SubSeq(c.stack, 1, Len(c.stack) - c.n)

(***************************************************************************)
(* C4: a Call(c,f) that does not panic shortens the caller's operand stack *)
(* by exactly num_params of (c,f); while the callee is live the caller's   *)
(* stack keeps that depth whatever the callee pushes; the matching Ret     *)
(* lengthens it by exactly one: the net change is 1 - num_params.          *)
(***************************************************************************)
C4_CallRetDepth_State ==
  /\ frames # <<>> => Len(calls) = Len(frames) - 1
  /\ \A k \in 1..Len(calls) :
        k < Len(frames) => Len(frames[k].stack) = Len(calls[k].stack) - calls[k].n

C4_CallRetDepth_Step ==
  /\ Executes("Call") =>
        /\ Len(frames') = Depth + 1
        /\ Len(frames'[Depth].stack) = Len(frames[Depth].stack) - CalleeParams
  /\ Executes("Ret") =>
        /\ Len(frames') = Depth - 1
        /\ Len(frames'[Depth - 1].stack) = Len(frames[Depth - 1].stack) + 1
        /\ Len(frames'[Depth - 1].stack) = Len(Last(calls).stack) + 1 - Last(calls).n

C4_CallRetDepth == [](C4_CallRetDepth_State) /\ [][C4_CallRetDepth_Step]_vars

\* just after the Ret of a call of two parameters: the caller is one shorter
C4_Witness ==
  /\ status = "running" /\ last.op = "Ret" /\ last.call # <<>>
  /\ last.call[1].n = 2
  /\ Len(Last(frames).stack) = Len(last.call[1].stack) - 1

(***************************************************************************)
(* C5: at a Call(c,f) with num_params = n the new frame's locals are the n *)
(* topmost values of the caller's stack in the order they were pushed (the *)
(* first pushed in slot 0, the last pushed, first popped, in slot n-1) and *)
(* the new frame's operand stack is empty.                                 *)
(***************************************************************************)
C5_CallLocals_Step ==
  Executes("Call") =>
    LET st == frames[Depth].stack
        n == CalleeParams
        new == frames'[Depth + 1]
    IN /\ Len(frames') = Depth + 1
       /\ Len(new.locals) = n
       /\ \A k \in 1..n : new.locals[k] = st[Len(st) - n + k]
       /\ new.stack = <<>>

C5_CallLocals == [][C5_CallLocals_Step]_vars

\* just after Call(global, minus) with 2 pushed before 1
C5_Witness ==
  /\ status = "running" /\ last.op = "Call"
  /\ Last(frames).name = "minus"
  /\ Last(frames).locals = <<VInt(2), VInt(1)>>
  /\ Last(frames).stack = <<>>

(***************************************************************************)
(* C6: Ret takes the top of the current frame's stack as return value, or  *)
(* None when that stack is empty, discards the frame, pushes the value on  *)
(* the caller's stack and sets pc to the frame's return_address, which is  *)
(* the index of the Call that made the frame plus one.                     *)
(***************************************************************************)
C6_Ret_Step ==
  Executes("Ret") =>
    LET f == frames[Depth]
        rv == IF f.stack # <<>> THEN f.stack[Len(f.stack)] ELSE NoneType
    IN /\ Len(frames') = Depth - 1
       /\ frames'[Depth - 1].stack = Append(frames[Depth - 1].stack, rv)
       /\ \A k \in 1..(Depth - 2) : frames'[k] = frames[k]
       /\ pc' = f.return_address
       /\ f.return_address = Last(calls).at + 1
       /\ At(Code, Last(calls).at).op = "Call"

C6_Ret == [][C6_Ret_Step]_vars

\* just after the Ret of a function whose stack was empty
C6_Witness ==
  /\ status = "running" /\ last.op = "Ret" /\ last.call # <<>>
  /\ Last(Last(frames).stack) = NoneType
  /\ pc = last.call[1].at + 1

(***************************************************************************)
(* C7: between a Call and its matching Ret nothing the callee does, a      *)
(* re-`let` of a parameter that was passed a caller variable included,     *)
(* changes a slot of the caller's locals or the part of the caller's       *)
(* operand stack below the popped arguments; after the Ret they are as     *)
(* they were at the Call.                                                  *)
(***************************************************************************)
C7_CallerUntouched_State ==
  \A k \in 1..Len(calls) :
    k < Len(frames) =>
      /\ frames[k].locals = calls[k].locals
      /\ frames[k].stack = BelowArgs(calls[k])

C7_CallerUntouched_Step ==
  Executes("Ret") =>
    /\ frames'[Depth - 1].locals = Last(calls).locals
    /\ Front(frames'[Depth - 1].stack) = BelowArgs(Last(calls))

C7_CallerUntouched == [](C7_CallerUntouched_State) /\ [][C7_CallerUntouched_Step]_vars

\* just after store(x) returned: the callee stored 2 in its parameter, the
\* caller's x is still 1
C7_Witness ==
  /\ status = "running" /\ last.op = "Ret" /\ last.call # <<>>
  /\ last.call[1].locals = <<VInt(1)>> /\ last.call[1].stack = <<VInt(1)>>
  /\ Last(frames).locals = <<VInt(1)>>
  /\ Last(frames).stack = <<VInt(2)>>

\* gen_bytecode has returned a Bytecode
Compiled == status \in {"compiled", "running", "returned"} \/ LoopPanicked
JumpOps == {"JumpIfTrue", "JumpIfFalse", "Jump"}
\* how often pos was handed to patch
PatchCount(pos) == Cardinality({k \in 1..Len(patched) : patched[k] = pos})

(***************************************************************************)
(* C8 (as stated): in every program the compiler produces, each Call(c,f)  *)
(* of the instructions has symbols[(c,f)] and labels[(c,f)] defined, for   *)
(* same-class calls, receiver calls and `new C(args)` alike.               *)
(***************************************************************************)
C8_EveryCallResolves ==
  Compiled =>
    \A k \in 1..Len(Code) :
      Code[k].op = "Call" =>
        /\ HasKey(bytecode.symbols, <<Code[k].c, Code[k].s>>)
        /\ HasKey(bytecode.labels, <<Code[k].c, Code[k].s>>)

(***************************************************************************)
(* C9: in the program the compiler returns, every target p of a            *)
(* JumpIfTrue, JumpIfFalse or Jump satisfies 0 <= p <= len(instructions),  *)
(* none is the PLACEHOLDER, and every JumpIfFalse, at any nesting depth of *)
(* `if` and `for`, has been handed to patch exactly once (and nothing else *)
(* has).                                                                   *)
(***************************************************************************)
C9_JumpsPatched ==
  Compiled =>
    /\ \A k \in 1..Len(Code) :
         /\ Code[k].op \in JumpOps =>
              (0 <= Code[k].n /\ Code[k].n <= Len(Code) /\ Code[k].n # PLACEHOLDER)
         /\ Code[k].op = "JumpIfFalse" => PatchCount(k - 1) = 1
    /\ \A j \in 1..Len(patched) :
         patched[j] < Len(Code) /\ At(Code, patched[j]).op = "JumpIfFalse"

\* a compiled program with an `if` inside a `for` and an `if` inside an `if`
C9_Witness ==
  /\ status = "compiled"
  /\ Cardinality({k \in 1..Len(Code) : Code[k].op = "JumpIfFalse"}) >= 5
  /\ \E k \in 1..Len(Code) : Code[k].op = "Jump" /\ Code[k].n < k - 1
  /\ \E j \in 1..Len(patched), k \in 1..Len(patched) : j < k /\ patched[j] > patched[k]

(***************************************************************************)
(* C10 (as stated): in every execution of a compiled program each          *)
(* StoreVar(i) the VM fetches finds i <= len(locals) of the current frame  *)
(* and each LoadVar(i) finds i < len(locals), also on the paths on which   *)
(* an `if` block or `for` body holding a slot-introducing `let` is skipped.*)
(***************************************************************************)
C10_SlotsInRange ==
  (Fetching /\ frames # <<>>) =>
    /\ CurInstr.op = "StoreVar" => CurInstr.n <= Len(Last(frames).locals)
    /\ CurInstr.op = "LoadVar" => CurInstr.n < Len(Last(frames).locals)

\* the marks of one emitter
MarksOf(kind) == {marks[k] : k \in {j \in 1..Len(marks) : marks[j].kind = kind}}
\* the value a conditional jump at the pc is about to pop
CondValue == Last(Last(frames).stack)
\* no jump outside the positions lo..hi-1 has its target among them
NoJumpInto(lo, hi) ==
  \A k \in 1..Len(Code) :
    (Code[k].op \in JumpOps /\ ~(lo <= k - 1 /\ k - 1 < hi)) => ~(lo <= Code[k].n /\ Code[k].n < hi)

(***************************************************************************)
(* C11 (as stated): for a compiled `if expr { block }` the block executes  *)
(* if and only if expr evaluated to Bool(true); on Bool(false) the pc goes *)
(* to the patched target, the position right after the block, and no local *)
(* slot changes.                                                           *)
(***************************************************************************)
C11_IfBlockIffTrue_Step ==
  \A m \in MarksOf("if") :
    (Fetching /\ pc = m.at) =>
      /\ pc' = m.a <=> CondValue = VBool(TRUE)
      /\ CondValue = VBool(FALSE) => pc' = m.b

C11_IfBlockIffTrue == [][C11_IfBlockIffTrue_Step]_vars

(***************************************************************************)
(* C11 (amended): for a compiled `if expr { block }` the JumpIfFalse sits  *)
(* right before the block and carries the position right after the block's *)
(* last instruction; no jump from outside the block leads into it.  When   *)
(* expr evaluated to Bool(false) the pc goes to that target and the        *)
(* frame's locals are unchanged; for every other value of expr, Bool(true) *)
(* or not a Bool at all, the pc goes to the block's first instruction.     *)
(***************************************************************************)
C11_IfBlockUnlessFalse_State ==
  Compiled =>
    \A m \in MarksOf("if") :
      /\ At(Code, m.at) = JumpIfFalse(m.b)
      /\ m.a = m.at + 1 /\ m.a <= m.b /\ m.b <= Len(Code)
      /\ NoJumpInto(m.a, m.b)

C11_IfBlockUnlessFalse_Step ==
  \A m \in MarksOf("if") :
    (Fetching /\ pc = m.at) =>
      /\ status' = "running"
      /\ Len(frames') = Len(frames)
      /\ Last(frames').stack = Front(Last(frames).stack)
      /\ Last(frames').locals = Last(frames).locals
      /\ IF CondValue = VBool(FALSE) THEN pc' = m.b ELSE pc' = m.a

C11_IfBlockUnlessFalse ==
  [](C11_IfBlockUnlessFalse_State) /\ [][C11_IfBlockUnlessFalse_Step]_vars

\* an `if` whose block was skipped, and before it one whose condition was Int(1)
C11_Witness ==
  /\ status = "running" /\ last.op = "JumpIfFalse"
  /\ \E m \in MarksOf("if") : m.at = last.at /\ pc = m.b /\ m.b > m.a
  /\ \E m \in MarksOf("if") : m.at < last.at /\ At(Code, m.at - 1) = PushInt(1)
  /\ Last(frames).locals = <<VInt(2)>>

(***************************************************************************)
(* C12: for a compiled `for (init; cond; step) { body }` the code is laid  *)
(* out init, cond, JumpIfFalse, body, step, Jump; the back Jump leads to   *)
(* the first instruction of cond and the JumpIfFalse to the position right *)
(* after the back Jump; no jump from outside leads into the loop past the  *)
(* first instruction of init, and none from the loop back into init, so    *)
(* init runs once per entry and cond before every iteration.  When cond is *)
(* Bool(true) the pc goes on to the body, when it is Bool(false) to the    *)
(* position after the back Jump.  Two nested loops of 2 iterations each,   *)
(* run from x = 0, increment x to 4: the inner init runs again on every    *)
(* outer iteration.                                                        *)
(***************************************************************************)
C12_ForLoop_State ==
  /\ Compiled =>
       \A m \in MarksOf("for") :
         /\ m.c <= m.a /\ m.a <= m.at /\ m.at < m.d /\ m.d <= m.b /\ m.b < Len(Code)
         /\ At(Code, m.at) = JumpIfFalse(m.b + 1)
         /\ At(Code, m.b) = Jump(m.a)
         /\ NoJumpInto(m.c + 1, m.b + 1)
         /\ \A k \in 1..Len(Code) :
              (Code[k].op \in JumpOps /\ m.a <= k - 1 /\ k - 1 <= m.b) =>
                ~(m.c <= Code[k].n /\ Code[k].n < m.a)
  /\ (status = "returned" /\ tree = FlowProgram(<<NestedFor>>)) => published = "4"

C12_ForLoop_Step ==
  \A m \in MarksOf("for") :
    /\ (Fetching /\ pc = m.at /\ CondValue = VBool(TRUE)) => pc' = m.at + 1
    /\ (Fetching /\ pc = m.at /\ CondValue = VBool(FALSE)) => pc' = m.b + 1
    /\ (Fetching /\ pc = m.b) => (pc' = m.a /\ frames' = frames /\ status' = "running")

C12_ForLoop == [](C12_ForLoop_State) /\ [][C12_ForLoop_Step]_vars

\* the nested loops have run to the end
C12_Witness ==
  /\ status = "returned" /\ tree = FlowProgram(<<NestedFor>>) /\ published = "4"
  /\ Cardinality(MarksOf("for")) = 2
  /\ Last(frames).locals = <<VInt(4), VInt(2), VInt(2)>>

\* the compiler context in which function key is being compiled, with the
\* symbol table of the compiled program
ContextIn(key) ==
  [CompilerContextNew EXCEPT !.symbols = bytecode.symbols, !.cur_cls = key[1], !.cur_fn = key[2]]

(***************************************************************************)
(* C13: register_local on a name already in the current function's locals  *)
(* (a parameter or an earlier `let`) returns that name's slot and leaves   *)
(* the context unchanged; in the compiled program no function's locals     *)
(* hold a name twice, every `let x` is a StoreVar and every read of x a    *)
(* LoadVar of the one slot of x in its function.  At run time that         *)
(* StoreVar writes the popped value into the slot, nothing but a StoreVar  *)
(* changes a frame's locals, and the LoadVar pushes the slot's value: a    *)
(* read of x, also after the `if` block or loop body of the `let` has      *)
(* ended, yields the value stored last.                                    *)
(***************************************************************************)
C13_LetReusesSlot_State ==
  /\ Compiled =>
       /\ \A key \in DOMAIN bytecode.symbols :
            LET locals == bytecode.symbols[key].locals
            IN \A i \in 1..Len(locals) :
                 /\ \A j \in 1..Len(locals) : locals[i] = locals[j] => i = j
                 /\ register_local(ContextIn(key), Ident(locals[i])) =
                      [ctx |-> ContextIn(key), ret |-> i - 1]
       /\ \A m \in MarksOf("let") \cup MarksOf("read") :
            /\ At(Code, m.at) = IF m.kind = "let" THEN StoreVar(m.a) ELSE LoadVar(m.a)
            /\ m.a < Len(bytecode.symbols[m.key].locals)
            /\ At(bytecode.symbols[m.key].locals, m.a) = m.name
  /\ (status = "returned" /\ tree = FlowProgram(<<SIf(EBin(L1, "LT", L2), <<SLet("x", L2)>>)>>))
        => published = "2"

C13_LetReusesSlot_Step ==
  /\ \A m \in MarksOf("let") :
       (Fetching /\ pc = m.at /\ m.a < Len(Last(frames).locals)) =>
         /\ Len(frames') = Len(frames)
         /\ Last(frames').locals = [Last(frames).locals EXCEPT ![m.a + 1] = CondValue]
  /\ \A m \in MarksOf("read") :
       (Fetching /\ pc = m.at /\ Code[pc + 1].op = "LoadVar") =>
         /\ Len(frames') = Len(frames)
         /\ Last(frames').stack = Append(Last(frames).stack, At(Last(frames).locals, m.a))
  /\ (Fetching /\ CurInstr.op # "StoreVar" /\ Len(frames') = Len(frames)) =>
       Last(frames').locals = Last(frames).locals

C13_LetReusesSlot == [](C13_LetReusesSlot_State) /\ [][C13_LetReusesSlot_Step]_vars

\* x, stored again inside an `if` block and by bump through its parameter,
\* is read after both
C13_Witness ==
  /\ status = "returned" /\ published = "3"
  /\ tree = FlowProgram(<<SIf(EBin(L1, "LT", L2), <<SLet("x", L2)>>), SLet("x", ECall("bump", <<EVar("x")>>))>>)
  /\ bytecode.symbols[<<"global", "bump">>].locals = <<"x">>
  /\ Last(frames).locals = <<VInt(3)>>

(***************************************************************************)
(* C14: `new C(a1..an)` compiles to NewObject; Dup; the arguments;         *)
(* Call(C, construct); Pop.  With a constructor of self plus n parameters, *)
(* the Call hands the constructor the reference of the object that the     *)
(* NewObject allocated in slot 0 and a1..an in slots 1..n, leaving the     *)
(* caller with that reference on top of the stack it had before the        *)
(* NewObject; after the Pop the caller's stack is again that stack with    *)
(* the reference on top, one deeper than before, whatever the constructor  *)
(* returned.                                                               *)
(***************************************************************************)
C14_NewLeavesRef_State ==
  Compiled =>
    \A m \in MarksOf("new") :
      /\ At(Code, m.at) = NewObject /\ At(Code, m.at + 1) = Dup
      /\ At(Code, m.a) = Call(m.name, CONSTRUCTOR)
      /\ At(Code, m.b) = Pop /\ m.b = m.a + 1 /\ m.at + 1 < m.a

C14_NewLeavesRef_Step ==
  \A m \in MarksOf("new") :
    /\ (Fetching /\ pc = m.at /\ status' = "running") =>
          /\ news' = Append(news, [frame |-> Len(frames), base |-> Last(frames).stack, ref |-> Len(heap)])
          /\ Len(heap') = Len(heap) + 1 /\ Last(heap') = ObjectNew
          /\ Last(frames').stack = Append(Last(frames).stack, ObjectRef(Len(heap)))
    /\ (Fetching /\ pc = m.a /\ status' = "running") =>
          LET n == bytecode.symbols[<<m.name, CONSTRUCTOR>>].num_params
              stack == Last(frames).stack
              opened == Last(news)
          IN /\ news # <<>> /\ opened.frame = Len(frames)
             /\ Len(frames') = Len(frames) + 1
             /\ Last(frames').locals =
                  <<ObjectRef(opened.ref)>> \o SubSeq(stack, Len(stack) - n + 2, Len(stack))
             /\ Len(Last(frames').locals) = n
             /\ Last(frames').stack = <<>>
             /\ frames'[Len(frames)].stack = Append(opened.base, ObjectRef(opened.ref))
    /\ (Fetching /\ pc = m.b) =>
          /\ status' = "running" /\ last.op = "Ret"
          /\ news # <<>> /\ Last(news).frame = Len(frames)
          /\ Len(Last(frames).stack) = Len(Last(news).base) + 2
          /\ Last(frames').stack = Append(Last(news).base, ObjectRef(Last(news).ref))
          /\ news' = Front(news)

C14_NewLeavesRef == [](C14_NewLeavesRef_State) /\ [][C14_NewLeavesRef_Step]_vars

\* after the Pop of `new Foo(new Bar())`: Bar's constructor returned 7, Foo's
\* nothing, and the stack holds the reference to the Foo object
C14_Witness ==
  /\ status = "running" /\ last.op = "Pop" /\ Len(heap) = 3
  /\ \E m \in MarksOf("new") : m.b = last.at /\ m.name = "Foo" /\ At(Code, m.a - 1) = Pop
  /\ Last(Last(frames).stack) = ObjectRef(1)
  /\ heap[2] = MapInsert(EmptyMap, "f", ObjectRef(2))

(***************************************************************************)
(* C15: StoreField through an ObjectRef writes the field of the heap       *)
(* object at the reference's index and nothing else on the heap; LoadField *)
(* pushes what the heap object at the index holds, whichever variable or   *)
(* frame the reference came through; no other instruction changes an       *)
(* object.  So the field the constructor set through self is read by the   *)
(* caller through x after the constructor's frame is gone, and a store     *)
(* through the alias y, in main or in setf, is read through x.             *)
(***************************************************************************)
C15_SharedByIndex_State ==
  status = "returned" =>
    /\ tree = ObjProgram(<<SExp(EFieldGet("x", "f"))>>) => published = "2"
    /\ tree = ObjProgram(<<SExp(EFieldSet("y", "f", EInt(<<"5">>))), SExp(EFieldGet("x", "f"))>>)
         => published = "5"
    /\ tree = ObjProgram(<<SExp(ECall("setf", <<EVar("y")>>)), SExp(EFieldGet("x", "f"))>>)
         => published = "5"

C15_SharedByIndex_Step ==
  LET stack == Last(frames).stack
      ref == Last(stack)
  IN /\ Executes("StoreField") =>
          /\ Len(heap') = Len(heap)
          /\ DOMAIN heap'[ref.i + 1] = DOMAIN heap[ref.i + 1] \cup {CurInstr.s}
          /\ heap'[ref.i + 1][CurInstr.s] = Last(Front(stack))
          /\ \A k \in 1..Len(heap) : \A g \in DOMAIN heap[k] :
               (k # ref.i + 1 \/ g # CurInstr.s) => heap'[k][g] = heap[k][g]
          /\ \A k \in 1..Len(heap) : k # ref.i + 1 => DOMAIN heap'[k] = DOMAIN heap[k]
     /\ Executes("LoadField") =>
          /\ heap' = heap
          /\ Last(frames').stack = Append(Front(stack), heap[ref.i + 1][CurInstr.s])
     /\ (Fetching /\ CurInstr.op # "StoreField") => SubSeq(heap', 1, Len(heap)) = heap

C15_SharedByIndex == [](C15_SharedByIndex_State) /\ [][C15_SharedByIndex_Step]_vars

\* setf stored 5 through its parameter o, main read it through x
C15_Witness ==
  /\ status = "returned" /\ published = "5" /\ Len(frames) = 1
  /\ tree = ObjProgram(<<SExp(ECall("setf", <<EVar("y")>>)), SExp(EFieldGet("x", "f"))>>)
  /\ Last(frames).locals = <<ObjectRef(0), ObjectRef(0)>>

\* the "fn" marks in the order the functions were compiled
FnMarks == SelectSeq(marks, LAMBDA m : m.kind = "fn")

(***************************************************************************)
(* C16: for every function definition compiled, labels[(c,f)] is the       *)
(* position of the first instruction emitted for f's body, c being the     *)
(* class whose body holds the definition; the parameters emit nothing, so  *)
(* that position is 0 for the first function and right after the previous  *)
(* function's terminator for the others; a Call(c,f) sets the pc to it.    *)
(***************************************************************************)
C16_LabelIsBodyStart_State ==
  Compiled =>
    /\ \A k \in 1..Len(FnMarks) :
         /\ HasKey(bytecode.labels, FnMarks[k].key)
         /\ bytecode.labels[FnMarks[k].key] = FnMarks[k].a
         /\ FnMarks[k].a = IF k = 1 THEN 0 ELSE FnMarks[k - 1].b + 1
         /\ FnMarks[k].a < FnMarks[k].b
    /\ DOMAIN bytecode.labels = {FnMarks[k].key : k \in 1..Len(FnMarks)}
    /\ tree \in ObjPrograms =>
         /\ DOMAIN bytecode.labels =
              {<<"global", "main">>, <<"global", "setf">>, <<"Foo", CONSTRUCTOR>>,
               <<"Foo", "main">>, <<"Bar", CONSTRUCTOR>>, <<"Two", CONSTRUCTOR>>}
         /\ At(Code, bytecode.labels[<<"global", "main">>]) = NewObject
         /\ At(Code, bytecode.labels[<<"global", "setf">>]) = PushInt(5)
         /\ At(Code, bytecode.labels[<<"Foo", CONSTRUCTOR>>]) = LoadVar(1)
         /\ At(Code, bytecode.labels[<<"Foo", "main">>]) = PushInt(0)
         /\ At(Code, bytecode.labels[<<"Bar", CONSTRUCTOR>>]) = PushInt(7)
         /\ At(Code, bytecode.labels[<<"Two", CONSTRUCTOR>>]) = LoadVar(1)

C16_LabelIsBodyStart_Step ==
  Executes("Call") =>
    \E k \in 1..Len(FnMarks) :
      FnMarks[k].key = <<CurInstr.c, CurInstr.s>> /\ pc' = FnMarks[k].a

C17_OneTerminator ==
  Compiled =>
    /\ \A k \in 1..Len(FnMarks) :
         /\ At(Code, FnMarks[k].b) = IF FnMarks[k].key = MainKey THEN Exit ELSE Ret
         /\ FnMarks[k].b + 1 = IF k = Len(FnMarks) THEN Len(Code) ELSE FnMarks[k + 1].a
    /\ Cardinality({k \in 1..Len(Code) : Code[k].op \in {"Exit", "Ret"}}) = Len(FnMarks)

\* compiled: global main ends in Exit, Foo's main and the others in Ret
C17_Witness ==
  /\ status = "compiled" /\ Len(FnMarks) = 6
  /\ \E k \in 1..Len(FnMarks) : FnMarks[k].key = <<"Foo", "main">> /\ At(Code, FnMarks[k].b) = Ret
  /\ \E k \in 1..Len(FnMarks) : FnMarks[k].key = MainKey /\ At(Code, FnMarks[k].b) = Exit

(***************************************************************************)
(* C18: VM start-up sets the pc to labels[(global, main)] and pushes       *)
(* exactly one root frame, with empty locals, empty operand stack and      *)
(* return_address = len(instructions); when labels has no (global, main)   *)
(* entry the VM does not start: the run ends there, with no frame pushed,  *)
(* no instruction fetched and nothing published.                           *)
(***************************************************************************)
C18_StartUp_State ==
  fatal = "Main method not found" =>
    /\ status = "fatal" /\ ~HasKey(bytecode.labels, MainKey)
    /\ frames = <<>> /\ last = NoLast /\ result = <<>> /\ published = ""

C18_StartUp_Step ==
  status = "compiled" =>
    IF HasKey(bytecode.labels, MainKey)
    THEN /\ status' = "running" /\ fatal' = ""
         /\ pc' = bytecode.labels[MainKey]
         /\ Len(frames') = 1
         /\ frames'[1].locals = <<>> /\ frames'[1].stack = <<>>
         /\ frames'[1].return_address = Len(Code)
         /\ ~frames'[1].raise
         /\ heap' = <<>> /\ last' = NoLast
    ELSE /\ status' = "fatal" /\ fatal' = "Main method not found"
         /\ frames' = <<>> /\ last' = NoLast

C18_StartUp == [](C18_StartUp_State) /\ [][C18_StartUp_Step]_vars

\* the VM has started at a main that is not the first instruction
C18_Witness ==
  /\ status = "running" /\ last = NoLast
  /\ pc = 2 /\ bytecode.labels[MainKey] = 2 /\ Len(Code) = 3
  /\ frames = <<FrameNew("main", <<>>, 3)>>

(***************************************************************************)
(* C19: on Exit, and likewise when pc >= len(instructions), the program    *)
(* result is the value on top of the current frame's operand stack if that *)
(* stack is non-empty, and no result otherwise (also when no frame         *)
(* remains); the frame's stack is only peeked, not popped.                 *)
(***************************************************************************)
C19_AtBreak ==
  \/ pc >= Len(Code)
  \/ At(Code, pc).op = "Exit"

C19_ResultIsPeekedTop_Step ==
  /\ status = "running" /\ status' = "returned" => C19_AtBreak
  /\ status = "running" /\ C19_AtBreak /\ status' # "fatal" =>
       /\ status' = "returned"
       /\ result' = IF frames # <<>> /\ frames[Len(frames)].stack # <<>>
                     THEN <<Last(frames[Len(frames)].stack)>>
                     ELSE <<>>
       /\ frames' = frames /\ heap' = heap

C19_ResultIsPeekedTop == [][C19_ResultIsPeekedTop_Step]_vars

\* the run fell off the end with two values on the root frame's stack
C19_Witness ==
  /\ status = "returned" /\ pc >= Len(Code)
  /\ Len(frames) = 1 /\ Len(frames[1].stack) = 2
  /\ frames[1].stack[1] # frames[1].stack[2]
  /\ result = <<frames[1].stack[2]>>

(***************************************************************************)
(* C20: the text published by run is, for every terminating run, exactly   *)
(* one of these forms determined by the result: the decimal form for Int   *)
(* and Double, true or false for Bool, the string itself for Str,          *)
(* &<index> for ObjectRef, and the empty string when the program has no    *)
(* result, including the case where main's final value comes from a        *)
(* function that returned no value.                                        *)
(***************************************************************************)
C20_PublishedForms ==
  status = "returned" =>
    published =
      IF result = <<>> \/ result[1].tag = "NoneType" THEN ""
      ELSE CASE result[1].tag = "Int" -> I32ToString(result[1].i)
             [] result[1].tag = "Double" -> F32ToString(result[1].i)
             [] result[1].tag = "Bool" -> (IF result[1].i = 1 THEN "true" ELSE "false")
             [] result[1].tag = "Str" -> result[1].s
             [] result[1].tag = "ObjectRef" -> "&" \o NatDigits(result[1].i)

(***************************************************************************)
(* C21: Dup immediately followed by Pop, on a frame with a non-empty       *)
(* operand stack, leaves that operand stack identical to what it was       *)
(* before the Dup, and leaves locals, heap and the frame sequence          *)
(* unchanged; Dup on an empty stack is fatal.                              *)
(***************************************************************************)
\* the latest iteration executed a Dup and the loop now fetches the Pop
\* that follows it
C21_PopAfterDup ==
  /\ Fetching /\ CurInstr.op = "Pop"
  /\ last.op = "Dup" /\ last.at + 1 = pc

C21_DupPopIsNoOp_Step ==
  /\ C21_PopAfterDup =>
       /\ Last(last.frames).stack # <<>>
       /\ status' = "running" /\ pc' = pc + 1
       /\ frames' = last.frames /\ heap' = last.heap
  /\ Fetching /\ CurInstr.op = "Dup" /\ frames # <<>> /\ Last(frames).stack = <<>> =>
       status' = "fatal" /\ frames' = frames /\ heap' = heap

C21_DupPopIsNoOp == [][C21_DupPopIsNoOp_Step]_vars

\* Dup and Pop have run on the newest of two frames, which holds two values
\* and two locals
C21_Witness ==
  /\ status = "running" /\ Code = <<Dup, Pop>> /\ pc = 2 /\ last.op = "Pop"
  /\ Len(frames) = 2 /\ Len(Last(last.frames).stack) = 3
  /\ Len(Last(frames).stack) = 2 /\ Len(Last(frames).locals) = 2

(***************************************************************************)
(* C22 (as stated): for Add and Sub over every pair of operands drawn from *)
(* Int and Double, exactly one value is pushed in place of the two popped, *)
(* and its tag is Double if and only if at least one operand is Double;    *)
(* Int with Int yields Int holding the integer sum or difference.          *)
(***************************************************************************)
\* the loop is about to execute Add or Sub on two numbers
C22_NumbersToAddOrSub ==
  /\ Fetching /\ CurInstr.op \in {"Add", "Sub"}
  /\ frames # <<>> /\ Len(Last(frames).stack) >= 2
  /\ IsNum(Lhs(Last(frames))) /\ IsNum(Rhs(Last(frames)))

\* v is the i32 that equals x + y, resp. x - y (none does when that
\* number lies outside i32)
C22_IsSum(v, x, y) ==
  IF (x > 0 /\ y > 0 /\ x > I32Max - y) \/ (x < 0 /\ y < 0 /\ x < I32Min - y)
  THEN FALSE ELSE v = x + y
C22_IsDifference(v, x, y) ==
  IF (x >= 0 /\ y < 0 /\ x > I32Max + y) \/ (x < 0 /\ y > 0 /\ x < I32Min + y)
  THEN FALSE ELSE v = x - y

C22_AddSubOnNumbers_Step ==
  C22_NumbersToAddOrSub =>
    LET l == Lhs(Last(frames))
        r == Rhs(Last(frames))
    IN /\ status' = "running"
       /\ Len(frames') = Len(frames)
       /\ Len(Last(frames').stack) = Len(Last(frames).stack) - 1
       /\ Front(Last(frames').stack) = Front(Front(Last(frames).stack))
       /\ Last(Last(frames').stack).tag =
            (IF l.tag = "Double" \/ r.tag = "Double" THEN "Double" ELSE "Int")
       /\ (l.tag = "Int" /\ r.tag = "Int") =>
            IF CurInstr.op = "Add"
            THEN C22_IsSum(Last(Last(frames').stack).i, l.i, r.i)
            ELSE C22_IsDifference(Last(Last(frames').stack).i, l.i, r.i)

C22_AddSubOnNumbers == [][C22_AddSubOnNumbers_Step]_vars

(***************************************************************************)
(* C23: for a binary expression `l op r` the compiler emits the code of l, *)
(* then the code of r, then the opcode; the opcode pops r first and l      *)
(* second and computes l op r, so subtraction and the order comparisons    *)
(* are not commuted: `666 - 66` yields 600, `6 < 666` yields true,         *)
(* `666 > 666` yields false, and each comparison pushes a Bool.            *)
(***************************************************************************)
C23_OpcodeOf(tok) ==
  CASE tok = "PLUS" -> "Add" [] tok = "MINUS" -> "Sub" [] tok = "LTEQ" -> "Lteq"
    [] tok = "GTEQ" -> "Gteq" [] tok = "LT" -> "Lt" [] tok = "GT" -> "Gt"
    [] tok = "EQEQ" -> "Eqeq"

\* both operands of the binary expression of mark m are integer literals
C23_OnLiterals(m) ==
  /\ m.b = m.a + 1 /\ m.at = m.b + 1
  /\ At(Code, m.a).op = "PushInt" /\ At(Code, m.b).op = "PushInt"

\* the value of `l op r` for i32 l and r, <<>> where l + r or l - r is no i32
C23_ValueOf(l, tok, r) ==
  CASE tok = "PLUS" -> IF C22_IsSum(l + r, l, r) THEN <<VInt(l + r)>> ELSE <<>>
    [] tok = "MINUS" -> IF C22_IsDifference(l - r, l, r) THEN <<VInt(l - r)>> ELSE <<>>
    [] tok = "LTEQ" -> <<VBool(l <= r)>>
    [] tok = "GTEQ" -> <<VBool(l >= r)>>
    [] tok = "LT" -> <<VBool(l < r)>>
    [] tok = "GT" -> <<VBool(l > r)>>
    [] tok = "EQEQ" -> <<VBool(l = r)>>

C23_Sub(l, r) == EBin(l, "MINUS", r)
C23_N(ds) == EInt(ds)

C23_LeftToRight_State ==
  /\ Compiled =>
       \A k \in 1..Len(marks) :
         marks[k].kind = "bin" =>
           /\ marks[k].a < marks[k].b /\ marks[k].b < marks[k].at
           /\ At(Code, marks[k].at).op = C23_OpcodeOf(marks[k].name)
  /\ status = "returned" =>
       /\ tree = ArithProgram(C23_Sub(C23_N(<<"6", "6", "6">>), C23_N(<<"6", "6">>)))
            => published = "600"
       /\ tree = ArithProgram(EBin(C23_N(<<"6">>), "LT", C23_N(<<"6", "6", "6">>)))
            => published = "true"
       /\ tree = ArithProgram(EBin(C23_N(<<"6", "6", "6">>), "GT", C23_N(<<"6", "6", "6">>)))
            => published = "false"
       /\ tree = ArithProgram(C23_Sub(C23_Sub(C23_N(<<"6", "6", "6">>), C23_N(<<"6", "6">>)), C23_N(<<"6">>)))
            => published = "594"
       /\ tree = ArithProgram(C23_Sub(C23_N(<<"6", "6", "6">>), C23_Sub(C23_N(<<"6", "6">>), C23_N(<<"6">>))))
            => published = "606"

C23_LeftToRight_Step ==
  \A k \in 1..Len(marks) :
    (marks[k].kind = "bin" /\ Fetching /\ pc = marks[k].at) =>
      /\ Len(Last(frames).stack) >= 2
      /\ (status' = "running" /\ marks[k].name \notin {"PLUS", "MINUS"}) =>
           Last(Last(frames').stack).tag = "Bool"
      /\ C23_OnLiterals(marks[k]) =>
           LET l == At(Code, marks[k].a).n
               r == At(Code, marks[k].b).n
           IN /\ Lhs(Last(frames)) = VInt(l) /\ Rhs(Last(frames)) = VInt(r)
              /\ (status' = "running" /\ C23_ValueOf(l, marks[k].name, r) # <<>>) =>
                   Last(frames').stack =
                     Front(Front(Last(frames).stack)) \o C23_ValueOf(l, marks[k].name, r)

C23_LeftToRight == [](C23_LeftToRight_State) /\ [][C23_LeftToRight_Step]_vars

\* `666 - 66` has run and published 600
C23_Witness ==
  /\ status = "returned" /\ published = "600"
  /\ tree = ArithProgram(C23_Sub(C23_N(<<"6", "6", "6">>), C23_N(<<"6", "6">>)))
  /\ Code = <<PushInt(666), PushInt(66), Sub, Exit>>

(***************************************************************************)
(* C24: for every integer literal n the compiler accepts, the program      *)
(* whose main body is just n compiles to PushInt(n); Exit, and the result  *)
(* run publishes is the decimal text of n, for every n in the 32-bit       *)
(* signed range.                                                           *)
(***************************************************************************)
\* the literals of ArithLexemes that denote an i32: lexeme, value, and the
\* decimal text of the value
C24_Literals ==
  {[ds |-> <<"0">>, n |-> 0, text |-> "0"],
   [ds |-> <<"6">>, n |-> 6, text |-> "6"],
   [ds |-> <<"6", "6">>, n |-> 66, text |-> "66"],
   [ds |-> <<"6", "6", "6">>, n |-> 666, text |-> "666"],
   [ds |-> <<"0", "0", "7">>, n |-> 7, text |-> "7"],
   [ds |-> <<"+", "5">>, n |-> 5, text |-> "5"],
   [ds |-> <<"-", "0">>, n |-> 0, text |-> "0"],
   [ds |-> <<"-", "1">>, n |-> -1, text |-> "-1"],
   [ds |-> LexMax, n |-> I32Max, text |-> "2147483647"],
   [ds |-> LexMin, n |-> I32Min, text |-> "-2147483648"]}
\* the lexemes one past either end of i32
C24_NotI32 ==
  {<<"2", "1", "4", "7", "4", "8", "3", "6", "4", "8">>,
   <<"-", "2", "1", "4", "7", "4", "8", "3", "6", "4", "9">>}

C24_LiteralRoundTrip ==
  /\ \A lit \in C24_Literals :
       tree = ArithProgram(EInt(lit.ds)) =>
         /\ status # "fatal"
         /\ Compiled => Code = <<PushInt(lit.n), Exit>>
         /\ status = "returned" => published = lit.text
  /\ \A ds \in C24_NotI32 :
       tree = ArithProgram(EInt(ds)) =>
         status \in {"parsed", "fatal"} /\ Code = <<>> /\ published = ""

\* the program whose main body is -2147483648 has published its result
C24_Witness ==
  /\ tree = ArithProgram(EInt(LexMin))
  /\ status = "returned" /\ published = "-2147483648"
  /\ result = <<VInt(I32Min)>>

(***************************************************************************)
(* C25: StoreVar(i) pops exactly one value and then: if i < len(locals) it *)
(* overwrites slot i and leaves the length and every other slot unchanged; *)
(* if i = len(locals) it appends the value as a new last slot; if          *)
(* i > len(locals) the VM aborts fatally, not through the raise and        *)
(* unwind path.                                                            *)
(***************************************************************************)
C25_StoreVar_Step ==
  (Fetching /\ CurInstr.op = "StoreVar" /\ frames # <<>> /\ Last(frames).stack # <<>>) =>
    LET i == CurInstr.n
        top == Last(frames)
        value == Last(top.stack)
        len == Len(top.locals)
        top2 == Last(frames')
    IN IF i > len
       THEN /\ status' = "fatal" /\ fatal' # ""
            /\ \A k \in 1..Len(frames') : ~frames'[k].raise
            /\ Len(frames') = Len(frames) /\ pc' = pc
       ELSE /\ status' = "running" /\ fatal' = "" /\ pc' = pc + 1
            /\ Len(frames') = Len(frames)
            /\ Front(frames') = Front(frames)
            /\ top2.stack = Front(top.stack)
            /\ ~top2.raise
            /\ IF i < len
               THEN /\ Len(top2.locals) = len
                    /\ \A k \in 0..(len - 1) :
                         At(top2.locals, k) = IF k = i THEN value ELSE At(top.locals, k)
               ELSE top2.locals = Append(top.locals, value)

C25_StoreVar == [][C25_StoreVar_Step]_vars

\* StoreVar(0) has overwritten slot 0 of two locals with the Str it popped
C25_Witness ==
  /\ status = "running" /\ last.op = "StoreVar" /\ Code = <<StoreVar(0)>>
  /\ Len(frames) = 2
  /\ Last(last.frames).locals = <<VInt(5), VStr("b")>>
  /\ Last(frames).locals = <<VStr("a"), VStr("b")>>

(***************************************************************************)
(* C26: JumpIfFalse(p) pops exactly one value and sets pc to p if and only *)
(* if that value is Bool(false); for every other value, Bool(true) and     *)
(* also any non-Bool value, it sets pc to pc + 1 and raises nothing.       *)
(* JumpIfTrue(p) is symmetric with Bool(true).                             *)
(***************************************************************************)
C26_CondJump_Step ==
  (Fetching /\ CurInstr.op \in {"JumpIfFalse", "JumpIfTrue"}
     /\ frames # <<>> /\ Last(frames).stack # <<>>) =>
    LET value == Last(Last(frames).stack)
        jumps == value.tag = "Bool"
                 /\ value.i = (IF CurInstr.op = "JumpIfTrue" THEN 1 ELSE 0)
    IN /\ status' = "running" /\ fatal' = ""
       /\ pc' = IF jumps THEN CurInstr.n ELSE pc + 1
       /\ Len(frames') = Len(frames)
       /\ Front(frames') = Front(frames)
       /\ Last(frames') = [Last(frames) EXCEPT !.stack = Front(@)]
       /\ ~Last(frames').raise
       /\ heap' = heap

C26_CondJump == [][C26_CondJump_Step]_vars

\* JumpIfTrue(2) at 0 has popped Int(1) and gone on to 1
C26_Witness ==
  /\ status = "running" /\ Code = <<JumpIfTrue(2)>> /\ last.op = "JumpIfTrue"
  /\ Last(Last(last.frames).stack) = VInt(1)
  /\ pc = 1

(***************************************************************************)
(* C27 (as stated): when the unwind runs on a frame sequence in which some *)
(* frame is marked as inside a try region, it walks from newest to oldest, *)
(* stops at the newest such frame, discards only the frames above (newer   *)
(* than) that frame, keeps that frame and all older ones, and execution    *)
(* continues instead of terminating.                                       *)
(***************************************************************************)
\* the instruction the loop is about to execute sets the raise flag
C27_Raises == (Fetching /\ CurInstr.op = "Raise" /\ frames # <<>>) \/ TypeMismatch
\* the index in frames of the newest frame inside a try region
C27_NewestTry ==
  CHOOSE t \in 1..Len(frames) :
    frames[t].in_try /\ \A k \in (t + 1)..Len(frames) : ~frames[k].in_try

C27_UnwindKeepsTryFrame_Step ==
  (C27_Raises /\ \E k \in 1..Len(frames) : frames[k].in_try) =>
    /\ status' = "running" /\ pc' # UsizeMax
    /\ Len(frames') = C27_NewestTry
    /\ \A k \in 1..(C27_NewestTry - 1) : frames'[k] = frames[k]
    /\ frames'[C27_NewestTry].in_try
    /\ frames'[C27_NewestTry].name = frames[C27_NewestTry].name

C28_SameButStackAndLocals(f, g) ==
  g.return_address = f.return_address /\ g.name = f.name /\ g.in_try = f.in_try
\* stack s is stack t after some pops
C28_IsPrefix(s, t) == Len(s) <= Len(t) /\ s = SubSeq(t, 1, Len(s))

C28_OnlyTopFrame_Step ==
  (Fetching /\ frames # <<>>) =>
    LET n == Len(frames)
        op == CurInstr.op
    IN IF status' # "running" THEN frames' = frames
       ELSE IF C27_Raises
       THEN Len(frames') < n /\ frames' = SubSeq(frames, 1, Len(frames'))
       ELSE IF op = "Ret"
       THEN /\ Len(frames') = n - 1
            /\ SubSeq(frames', 1, n - 2) = SubSeq(frames, 1, n - 2)
            /\ frames'[n - 1] = [frames[n - 1] EXCEPT !.stack = Append(@, Last(frames'[n - 1].stack))]
       ELSE IF op = "Call"
       THEN /\ Len(frames') = n + 1
            /\ SubSeq(frames', 1, n - 1) = SubSeq(frames, 1, n - 1)
            /\ C28_IsPrefix(frames'[n].stack, frames[n].stack)
            /\ frames'[n] = [frames[n] EXCEPT !.stack = frames'[n].stack]
       ELSE /\ Len(frames') = n
            /\ Front(frames') = Front(frames)
            /\ C28_SameButStackAndLocals(Last(frames), Last(frames'))

C28_OnlyTopFrame == [][C28_OnlyTopFrame_Step]_vars

\* a Ret from the third frame has pushed its value on the second, and the
\* root frame, which holds a value, is as it was
C28_Witness ==
  /\ status = "running" /\ last.op = "Ret" /\ last.depth = 3
  /\ Len(frames) = 2 /\ frames[1] = last.frames[1]
  /\ frames[1].stack # <<>>
  /\ Len(frames[2].stack) = Len(last.frames[2].stack) + 1

(***************************************************************************)
(* C29: the heap only grows: NewObject appends one empty object and pushes *)
(* ObjectRef(len(heap) - 1) computed after the append, so every NewObject  *)
(* in a run returns a distinct index; no instruction removes or reorders   *)
(* heap objects, and no instruction other than StoreField on that index    *)
(* changes an object's fields.                                             *)
(***************************************************************************)
C29_HeapAppendOnly_Step ==
  Fetching =>
    IF status' # "running" THEN heap' = heap
    ELSE IF CurInstr.op = "NewObject"
    THEN /\ heap' = Append(heap, EmptyMap)
         /\ Last(frames').stack = Append(Last(frames).stack, ObjectRef(Len(heap') - 1))
         /\ \A k \in 1..Len(frames) : \A j \in 1..Len(frames[k].stack) :
              frames[k].stack[j] # ObjectRef(Len(heap') - 1)
    ELSE IF CurInstr.op = "StoreField"
    THEN LET target == Last(Last(frames).stack).i
             value == Last(Front(Last(frames).stack))
         IN /\ Len(heap') = Len(heap)
            /\ \A k \in 0..(Len(heap) - 1) : k # target => At(heap', k) = At(heap, k)
            /\ DOMAIN At(heap', target) = DOMAIN At(heap, target) \cup {CurInstr.s}
            /\ \A f \in DOMAIN At(heap', target) :
                 At(heap', target)[f] = IF f = CurInstr.s THEN value ELSE At(heap, target)[f]
    ELSE heap' = heap

C29_HeapAppendOnly == [][C29_HeapAppendOnly_Step]_vars

\* a StoreField has added a second field to the second of two objects
C29_Witness ==
  /\ status = "running" /\ last.op = "StoreField"
  /\ Len(heap) = 2 /\ Len(last.heap) = 2
  /\ DOMAIN heap[2] = {"f", "g"} /\ DOMAIN last.heap[2] = {"f"}
  /\ heap[1] = last.heap[1] /\ heap[1] # EmptyMap

(***************************************************************************)
(* C30 (as stated): the function descriptor alone decides how many         *)
(* arguments a call consumes: Call(c,f) pops exactly                       *)
(* symbols[(c,f)].num_params values from the caller, independent of how    *)
(* many argument expressions the call site emitted, and for every compiled *)
(* program this pop never underflows the caller's operand stack.           *)
(***************************************************************************)
C30_DescriptorDecides_Step ==
  (Fetching /\ CurInstr.op = "Call" /\ frames # <<>>
     /\ HasKey(bytecode.symbols, <<CurInstr.c, CurInstr.s>>)
     /\ HasKey(bytecode.labels, <<CurInstr.c, CurInstr.s>>)) =>
    /\ Len(Last(frames).stack) >= CalleeParams
    /\ status' = "running"
    /\ Len(frames') = Len(frames) + 1
    /\ frames'[Len(frames)].stack =
         SubSeq(Last(frames).stack, 1, Len(Last(frames).stack) - CalleeParams)
    /\ Len(Last(frames').locals) = CalleeParams

C30_DescriptorDecides == [][C30_DescriptorDecides_Step]_vars


(***************************************************************************)
(* C31: patch(pos) rewrites the target of the jump at instructions[pos] to *)
(* the length of the instructions at the time of the call, for each of the *)
(* jump opcodes JumpIfTrue, JumpIfFalse and Jump, and leaves every other   *)
(* instruction and the length unchanged; it is fatal only when             *)
(* instructions[pos] is not a jump opcode.                                 *)
(***************************************************************************)
C31_Patching(pos) == last'.op = "patch" /\ last'.at = pos /\ pos < Len(context.bytecode)

C31_Rewritten(pos) ==
  /\ status' = "compiling"
  /\ Len(context'.bytecode) = Len(context.bytecode)
  /\ \A k \in 0..(Len(context.bytecode) - 1) :
       At(context'.bytecode, k) =
         IF k = pos THEN [At(context.bytecode, k) EXCEPT !.n = Len(context.bytecode)]
         ELSE At(context.bytecode, k)

C31_PatchRewritesJumps_Step ==
  \A pos \in 0..MaxRaw :
    C31_Patching(pos) =>
      IF At(context.bytecode, pos).op \in JumpOps
      THEN C31_Rewritten(pos)
      ELSE status' = "fatal" /\ context'.bytecode = context.bytecode

C32_Effect(k) ==
  LET instr == At(Code, k)
  IN CASE instr.op \in {"PushInt", "PushStr", "LoadVar", "NewObject", "Dup"} -> 1
       [] instr.op \in ArithOps \cup {"Pop", "StoreVar"} -> -1
       [] instr.op = "StoreField" -> -2
       [] instr.op = "Call" -> 1 - bytecode.symbols[<<instr.c, instr.s>>].num_params
       [] OTHER -> 0

RECURSIVE C32_NetEffect(_, _)
C32_NetEffect(lo, hi) == IF lo > hi THEN 0 ELSE C32_Effect(lo) + C32_NetEffect(lo + 1, hi)

C32_StoreFieldStores ==
  LET stack == Last(frames).stack
      target == Last(stack).i
      value == Last(Front(stack))
  IN /\ Len(frames') = Len(frames)
     /\ Last(frames').stack = Front(Front(stack))
     /\ Len(heap') = Len(heap)
     /\ \A k \in 0..(Len(heap) - 1) : k # target => At(heap', k) = At(heap, k)
     /\ At(heap', target) = MapInsert(At(heap, target), CurInstr.s, value)

\* the LoadField at the pc is handed an object without the field, or no object
C32_BadLoad ==
  /\ Fetching /\ CurInstr.op = "LoadField" /\ Last(frames).stack # <<>>
  /\ LET v == Last(Last(frames).stack)
     IN \/ v.tag # "ObjectRef"
        \/ v.i < Len(heap) /\ ~HasKey(At(heap, v.i), CurInstr.s)

C32_FieldStoreAndLoad_Step ==
  /\ Executes("StoreField") => C32_StoreFieldStores
  /\ C32_BadLoad => (status' = "fatal" /\ fatal' # "" /\ frames' = frames /\ heap' = heap)
  /\ status' = "compiled" =>
       \A m \in {marks'[k] : k \in {j \in 1..Len(marks') : marks'[j].kind = "fset"}} :
         LET code == bytecode'.bytecode
         IN /\ At(code, m.at).op = "StoreField" /\ At(code, m.b).op = "LoadVar" /\ m.b = m.at - 1
            /\ C32_NetEffect(m.a, m.at)' = 0

C32_FieldStoreAndLoad == [][C32_FieldStoreAndLoad_Step]_vars

(***************************************************************************)
(* C33: after any sequence of register_function, register_parameter and    *)
(* register_local calls the compiler makes, labels and symbols have the    *)
(* same key set, and every descriptor has num_params <= len(locals), the   *)
(* parameters in slots 0..num_params-1 in declaration order and the names  *)
(* introduced by `let` in the slots after them, in order of first          *)
(* registration.                                                           *)
(***************************************************************************)
\* the names the first k marks saw registered under key since the latest
\* register_function of key: the parameters in order, and the names of the
\* `let`s that were not registered before, in order
RECURSIVE C33_Registered(_, _)
C33_Registered(key, k) ==
  IF k = 0 THEN [params |-> <<>>, lets |-> <<>>]
  ELSE LET m == marks[k]
           r == C33_Registered(key, k - 1)
       IN IF m.key # key THEN r
          ELSE CASE m.kind = "def" -> [params |-> <<>>, lets |-> <<>>]
                 [] m.kind = "param" -> [r EXCEPT !.params = Append(@, m.name)]
                 [] m.kind = "let" /\ ~Contains(r.params \o r.lets, m.name) ->
                      [r EXCEPT !.lets = Append(@, m.name)]
                 [] OTHER -> r

C33_LocalsLayout ==
  Compiled =>
    /\ DOMAIN bytecode.labels = DOMAIN bytecode.symbols
    /\ \A key \in DOMAIN bytecode.symbols :
         LET d == bytecode.symbols[key]
             r == C33_Registered(key, Len(marks))
         IN /\ d.num_params <= Len(d.locals)
            /\ d.num_params = Len(r.params)
            /\ SubSeq(d.locals, 1, d.num_params) = r.params
            /\ SubSeq(d.locals, d.num_params + 1, Len(d.locals)) = r.lets

\* main holds def g(p, q) { let r = 1; let p = 2 } and then let x = 1, which
\* lands in g; f has kept its two parameters in front of c and d
C33_Witness ==
  /\ status = "compiled"
  /\ HasKey(bytecode.symbols, <<"global", "g">>)
  /\ bytecode.symbols[<<"global", "g">>] = [locals |-> <<"p", "q", "r", "x">>, num_params |-> 2]
  /\ bytecode.symbols[<<"global", "f">>] = [locals |-> <<"a", "b", "c", "d">>, num_params |-> 2]
  /\ bytecode.symbols[<<"global", "twice">>] = [locals |-> <<"p", "p">>, num_params |-> 2]
  /\ bytecode.symbols[<<"global", "main">>] = FnNew

(***************************************************************************)
(* C34: Eqeq, like the ordering comparisons, accepts only pairs of Int and *)
(* Double operands: on two operands of one non-numeric type, such as two   *)
(* Str or two Bool values, it pushes no Bool and raises TypeError, and the *)
(* run ends with the empty result.                                         *)
(***************************************************************************)
\* the Eqeq at the pc finds two operands of one type that is no number
C34_SameNonNumeric ==
  /\ Fetching /\ CurInstr.op = "Eqeq" /\ Len(Last(frames).stack) >= 2
  /\ Lhs(Last(frames)).tag = Rhs(Last(frames)).tag
  /\ ~IsNum(Lhs(Last(frames)))

C34_EqRaisesOnNonNumbers_Step ==
  /\ C34_SameNonNumeric =>
       /\ eq(Last(frames)).raise
       /\ eq(Last(frames)).stack =
            Front(Front(Last(frames).stack)) \o <<ObjectRef(EXCEPTION_PTR), VStr("TypeError")>>
       /\ status' = "running" /\ frames' = <<>> /\ pc' = UsizeMax
       /\ last'.op = "Eqeq"
  /\ (status = "running" /\ last.op = "Eqeq" /\ frames = <<>>) =>
       (status' = "returned" /\ result' = <<>> /\ published' = "")

C34_EqRaisesOnNonNumbers == [][C34_EqRaisesOnNonNumbers_Step]_vars

\* same("a", "b") has compared two strings two frames deep and the run is over
C34_Witness ==
  /\ status = "returned" /\ published = "" /\ result = <<>> /\ frames = <<>>
  /\ last.op = "Eqeq" /\ last.depth = 2
  /\ Len(Last(last.frames).stack) = 2
  /\ Lhs(Last(last.frames)).tag = "Str" /\ Rhs(Last(last.frames)).tag = "Str"

(***************************************************************************)
(* C35 (as stated): for every program the compiler emits, the frame        *)
(* sequence is non-empty whenever an instruction is fetched and            *)
(* dispatched, and Ret is never executed while only the root frame is      *)
(* present (main ends in Exit), so Ret always finds a caller frame to push *)
(* the return value on.                                                    *)
(***************************************************************************)
C35_RetFindsCaller_Step ==
  Fetching =>
    /\ frames # <<>>
    /\ CurInstr.op = "Ret" =>
         /\ Len(frames) >= 2
         /\ status' = "running"
         /\ Len(frames') = Len(frames) - 1
         /\ Last(frames').stack # <<>>

C35_RetFindsCaller == [][C35_RetFindsCaller_Step]_vars

(***************************************************************************)
(* C36: in every reachable VM state each non-root frame's return_address   *)
(* is the index of a Call instruction plus one and at most the number of   *)
(* instructions, and the root frame's return_address is the number of      *)
(* instructions; the depth of the frame sequence grows by one only at a    *)
(* Call, shrinks by one only at a Ret, and drops to zero only through      *)
(* unwinding.                                                              *)
(***************************************************************************)
C36_ReturnAddresses_State ==
  \A k \in 1..Len(frames) :
    IF k = 1 THEN frames[k].return_address = Len(Code)
    ELSE /\ 1 <= frames[k].return_address /\ frames[k].return_address <= Len(Code)
         /\ At(Code, frames[k].return_address - 1).op = "Call"
         /\ frames[k].return_address = calls[k - 1].at + 1

C36_ReturnAddresses_Step ==
  (Fetching /\ frames' # frames) =>
    /\ \/ Len(frames') = Len(frames)
       \/ Len(frames') = Len(frames) + 1
       \/ Len(frames') = Len(frames) - 1
       \/ frames' = <<>>
    /\ Len(frames') = Len(frames) + 1 => CurInstr.op = "Call"
    /\ (Len(frames') = Len(frames) - 1 /\ frames' # <<>>) => CurInstr.op = "Ret"
    /\ frames' = <<>> =>
         /\ Last(Dispatch(vmNow, CurInstr).frames).raise
         /\ pc' = UsizeMax
    /\ CurInstr.op = "Call" => Len(frames') = Len(frames) + 1
    /\ CurInstr.op = "Ret" => Len(frames') = Len(frames) - 1

C36_ReturnAddresses == [](C36_ReturnAddresses_State) /\ [][C36_ReturnAddresses_Step]_vars

\* main has called outer and outer inner: three frames, each of the upper two
\* returning to the instruction after its Call
C36_Witness ==
  /\ status = "running" /\ Len(frames) = 3
  /\ frames[1].return_address = Len(Code)
  /\ frames[2].return_address # frames[3].return_address
  /\ At(Code, frames[3].return_address - 1) = Call("global", "inner")
  /\ At(Code, frames[2].return_address - 1) = Call("global", "outer")

(***************************************************************************)
(* C37: at the start of every interpreter tick no live frame has its raise *)
(* flag set: a flag set during dispatch is consumed by the unwind check    *)
(* that follows that same instruction, so no instruction is ever fetched   *)
(* while a raise is pending.                                               *)
(***************************************************************************)
C37_NoPendingRaise_State == \A k \in 1..Len(frames) : ~frames[k].raise

\* the dispatch of the instruction at the pc sets the flag of the newest frame
C37_Raising ==
  /\ Fetching /\ status' = "running"
  /\ Last(Dispatch(vmNow, CurInstr).frames).raise

C37_NoPendingRaise_Step ==
  C37_Raising =>
    /\ Len(frames') < Len(frames)
    /\ frames' = SubSeq(frames, 1, Len(frames'))

C37_NoPendingRaise == [](C37_NoPendingRaise_State) /\ [][C37_NoPendingRaise_Step]_vars

\* a comparison of a string with a boolean has raised in the third frame, the
\* second was in a try region: the root frame is left, without the flag
C37_Witness ==
  /\ status = "running" /\ last.op \in ArithOps /\ last.depth = 3
  /\ last.frames[2].in_try /\ ~last.frames[3].in_try
  /\ Lhs(Last(last.frames)).tag = "Str" /\ Rhs(Last(last.frames)).tag = "Bool"
  /\ Len(frames) = 1 /\ ~frames[1].raise

(***************************************************************************)
(* C38: at the start of every interpreter tick, every ObjectRef(i) held in *)
(* the operand stack or the locals of a live frame, or in a field of a     *)
(* heap object, has i < len(heap); the ObjectRef(0) exception sentinel     *)
(* pushed by a raise never survives into a later tick.                     *)
(***************************************************************************)
C38_InHeap(v) == v.tag = "ObjectRef" => v.i < Len(heap)

C38_RefsInHeap_State ==
  /\ \A k \in 1..Len(frames) :
       /\ \A j \in 1..Len(frames[k].stack) : C38_InHeap(frames[k].stack[j])
       /\ \A j \in 1..Len(frames[k].locals) : C38_InHeap(frames[k].locals[j])
  /\ \A k \in 1..Len(heap) : \A f \in DOMAIN heap[k] : C38_InHeap(heap[k][f])

\* the dispatch of the instruction at the pc has pushed the sentinel and the
\* message on the newest frame
C38_SentinelPushed ==
  /\ Fetching /\ status' = "running"
  /\ LET raiser == Last(Dispatch(vmNow, CurInstr).frames)
     IN /\ raiser.raise
        /\ Len(raiser.stack) >= 2
        /\ raiser.stack[Len(raiser.stack) - 1] = ObjectRef(EXCEPTION_PTR)

C38_RefsInHeap_Step ==
  C38_SentinelPushed =>
    /\ Len(frames') < Len(frames)
    /\ \A k \in 1..Len(frames') : frames'[k] = frames[k]
    /\ heap' = heap

C38_RefsInHeap == [](C38_RefsInHeap_State) /\ [][C38_RefsInHeap_Step]_vars

\* x.g = new Bar() has stored the second object's reference in a field of
\* the first, and a raise has then discarded main's frame
C38_Witness ==
  /\ status = "running" /\ last.op = "Raise" /\ frames = <<>>
  /\ Len(heap) = 2 /\ HasKey(heap[1], "g") /\ heap[1]["g"] = ObjectRef(1)
  /\ Last(last.frames).locals = <<ObjectRef(0), ObjectRef(0)>>

(***************************************************************************)
(* C39: a compiled program that contains no for statement and no directly  *)
(* or mutually recursive call chain halts after finitely many ticks; the   *)
(* only backward jump the compiler emits is the Jump that ends a for loop, *)
(* and every patched JumpIfFalse targets an index greater than its own.    *)
(***************************************************************************)
\* the functions compiled, by key
C39_Keys == {m.key : m \in MarksOf("fn")}
\* the functions named by the Calls that stand in the code of function key
C39_CallsOf(key) ==
  {<<Code[k].c, Code[k].s>> :
     k \in {j \in 1..Len(Code) : /\ Code[j].op = "Call"
                                 /\ \E m \in MarksOf("fn") : m.key = key /\ m.a <= j - 1 /\ j - 1 <= m.b}}
RECURSIVE C39_Reach(_, _)
C39_Reach(S, n) ==
  IF n = 0 THEN S ELSE C39_Reach(S \cup UNION {C39_CallsOf(x) : x \in S}, n - 1)
C39_NoRecursion ==
  \A key \in C39_Keys : key \notin C39_Reach(C39_CallsOf(key), Cardinality(C39_Keys))
C39_NoFor == MarksOf("for") = {}
C39_Halted == status \in {"returned", "fatal"}
C39_Jumps_State ==
  Compiled =>
    \A k \in 0..(Len(Code) - 1) :
      LET instr == At(Code, k)
      IN /\ instr.op = "JumpIfFalse" => instr.n > k
         /\ instr.op = "JumpIfTrue" => instr.n > k
         /\ instr.op = "Jump" =>
              \E m \in MarksOf("for") : m.b = k /\ instr.n = m.a /\ m.a <= k
C39_Halts ==
  [](C39_Jumps_State)
    /\ ((status = "compiled" /\ C39_NoFor /\ C39_NoRecursion) ~> C39_Halted)
\* a program without for and recursion that took an if, skipped another and
\* called a helper that calls helpers has returned
C39_Witness ==
  /\ status = "returned"
  /\ C39_NoFor /\ C39_NoRecursion
  /\ Cardinality(MarksOf("if")) >= 2
  /\ \E k \in 1..Len(Code) : Code[k].op = "Call" /\ Code[k].s = "both"

====
